---- MODULE Spec2Model ----
(***************************************************************************)
(* CAG POS API (Fastify / MySQL): authentication, the write gate, the      *)
(* reporting endpoints, the offers endpoints; and the dashboard widget     *)
(* that runs in the browser (cag-pos-dashboard.js).                        *)
(*                                                                         *)
(* State: the users table, the configuration read at start-up, the login   *)
(* requests in flight (POST /auth/login), the protected requests in        *)
(* flight (preHandler requireAuth, then the route handler), the requests   *)
(* to the mutating endpoints, the reporting tables and the reporting       *)
(* request in flight.  Every await on the store is a separate step, so     *)
(* requests interleave exactly at the points where the Node.js event loop  *)
(* can switch between them.                                                *)
(***************************************************************************)
EXTENDS Integers, Sequences, FiniteSets, TLC

VARIABLES
    users,                      \* the users table: id_user -> row
    CFG,                        \* CFG (migration toggles, jwtSecret)
    HAS_PASSWORD_HASH_COLUMN,   \* schema detection result of main()
    started,                    \* number of login requests received so far
    salts,                      \* number of salts bcrypt.hash has drawn so far
    clock,                      \* the store's NOW()
    login,                      \* login request slot -> request state
    req,                        \* protected request slot -> request state
    wreq,                       \* request to a mutating endpoint, slot -> state
    store,                      \* the products, sales and sales_details tables
    dash,                       \* the GET /dashboard/summary or GET /sales request
    call,                       \* one call of a helper: its argument, its result
    pool,                       \* the connection pool and the transaction of its connection
    oreq,                       \* the request to a mutating /offers endpoint
    widget                      \* the dashboard widget in the browser

\* the state of the catalogue and reporting routes
dataVars == <<wreq, store, dash, call, pool, oreq, widget>>

\* the state of the offer transactions and of the widget
sideVars == <<pool, oreq, widget>>

vars == <<users, CFG, HAS_PASSWORD_HASH_COLUMN, started, salts, clock, login, req,
          wreq, store, dash, call, pool, oreq, widget>>

-----------------------------------------------------------------------------
(* Bounds of the model *)

\* login requests received in one behaviour
MaxLogins == 2
\* login requests in flight at the same time
MaxLoginSlots == 2
\* protected requests in flight at the same time
MaxReqSlots == 1

\* requests to mutating endpoints in flight at the same time
MaxWriteSlots == 1

LoginSlots == 1..MaxLoginSlots
WriteSlots == 1..MaxWriteSlots
ReqSlots == 1..MaxReqSlots

\* The ids of the rows of the users table, and the ids a token can name
\* (0 stands for an undefined, falsy value; the last id names no row).
UserIds == {1}
SubjectIds == {0} \cup UserIds \cup {Cardinality(UserIds) + 1}
UsernameOf(u) == <<"a">>

-----------------------------------------------------------------------------
(* Strings *)

RECURSIVE TrimLeft(_)
TrimLeft(s) ==
    IF s # <<>> /\ Head(s) = " " THEN TrimLeft(Tail(s)) ELSE s

RECURSIVE TrimRight(_)
TrimRight(s) ==
    IF s # <<>> /\ s[Len(s)] = " " THEN TrimRight(SubSeq(s, 1, Len(s) - 1)) ELSE s

\* String.prototype.trim on a string given as a sequence of characters
Trim(s) == TrimRight(TrimLeft(s))

-----------------------------------------------------------------------------
(* Role values.                                                            *)
(* users.roles is whatever the driver hands back for the column: NULL, a   *)
(* list or an object (JSON column), a number, or a string.  A string is a  *)
(* sequence of lexical units: a punctuation or space character, a run of   *)
(* letters, or a double-quoted run of letters.                             *)

P(c) == [k |-> "p", v |-> c]
W(n) == [k |-> "w", v |-> n]
Q(n) == [k |-> "q", v |-> n]
D(n) == [k |-> "d", v |-> ToString(n)]

RawNull == [t |-> "null", items |-> <<>>, s |-> <<>>]
\* a list holds String(x) of each element x, which is what raw.map(String) reads
RawList(items) == [t |-> "list", items |-> items, s |-> <<>>]
RawObject(keys) == [t |-> "object", items |-> keys, s |-> <<>>]
RawString(s) == [t |-> "string", items |-> <<>>, s |-> s]
\* a number holds String(n)
RawNumber(n) == [t |-> "number", items |-> <<>>, s |-> <<D(n)>>]

\* String.prototype.toLowerCase on the letters the model uses
lowerLetters(n) ==
    CASE n = "Admin" -> "admin"
      [] n = "ADMIN" -> "admin"
      [] n = "Manager" -> "manager"
      [] OTHER -> n

toLowerCase(s) ==
    [i \in DOMAIN s |-> IF s[i].k = "p" THEN s[i] ELSE [s[i] EXCEPT !.v = lowerLetters(@)]]

\* String.prototype.trim on a string of units
RECURSIVE trim(_)
trim(s) ==
    IF s # <<>> /\ Head(s) = P(" ") THEN trim(Tail(s))
    ELSE IF s # <<>> /\ s[Len(s)] = P(" ") THEN trim(SubSeq(s, 1, Len(s) - 1))
    ELSE s

\* s.split(/[,\s]+/).map((x) => x.trim()).filter(Boolean): the maximal runs
\* of units that are neither a comma nor a space
RECURSIVE splitRuns(_, _, _)
splitRuns(s, cur, acc) ==
    IF s = <<>> THEN (IF cur = <<>> THEN acc ELSE Append(acc, cur))
    ELSE IF Head(s) \in {P(","), P(" ")}
         THEN splitRuns(Tail(s), <<>>, IF cur = <<>> THEN acc ELSE Append(acc, cur))
         ELSE splitRuns(Tail(s), Append(cur, Head(s)), acc)

split(s) == splitRuns(s, <<>>, <<>>)

\* Array.prototype.join(","), which String() applies to a nested list
RECURSIVE joinComma(_)
joinComma(items) ==
    IF items = <<>> THEN <<>>
    ELSE IF Len(items) = 1 THEN items[1]
    ELSE items[1] \o <<P(",")>> \o joinComma(Tail(items))

\* the keys of an object literal, each once, in order of first occurrence
addKey(keys, key) ==
    IF \E i \in DOMAIN keys : keys[i] = key THEN keys ELSE Append(keys, key)

\* A parsed JSON value: its type, String(value), what join() prints for it,
\* the String() of its elements (a list) or its keys (an object), and the
\* units left after it.
JsonFail == [ok |-> FALSE, t |-> "none", str |-> <<>>, join |-> <<>>, items |-> <<>>, rest |-> <<>>]
JsonScalar(t, str, join, rest) ==
    [ok |-> TRUE, t |-> t, str |-> str, join |-> join, items |-> <<>>, rest |-> rest]
JsonArray(items, joins, rest) ==
    [ok |-> TRUE, t |-> "array", str |-> joinComma(joins), join |-> joinComma(joins),
     items |-> items, rest |-> rest]
JsonObject(keys, rest) ==
    [ok |-> TRUE, t |-> "object", str |-> <<W("[object Object]")>>,
     join |-> <<W("[object Object]")>>, items |-> keys, rest |-> rest]

RECURSIVE JsonValue(_)
RECURSIVE JsonElements(_, _, _)
RECURSIVE JsonMembers(_, _)

\* one JSON value at the head of s (white space already skipped)
JsonValue(s) ==
    IF s = <<>> THEN JsonFail
    ELSE IF Head(s).k = "q" THEN JsonScalar("string", <<W(Head(s).v)>>, <<W(Head(s).v)>>, Tail(s))
    ELSE IF Head(s) \in {W("true"), W("false")} THEN JsonScalar("boolean", <<Head(s)>>, <<Head(s)>>, Tail(s))
    ELSE IF Head(s) = W("null") THEN JsonScalar("null", <<Head(s)>>, <<>>, Tail(s))
    ELSE IF Head(s).k = "d" THEN JsonScalar("number", <<Head(s)>>, <<Head(s)>>, Tail(s))
    ELSE IF Head(s) = P("[") THEN JsonElements(Tail(s), <<>>, <<>>)
    ELSE IF Head(s) = P("{") THEN JsonMembers(Tail(s), <<>>)
    ELSE JsonFail

\* the elements of a list after its "[" or after a ","
JsonElements(s, items, joins) ==
    IF s # <<>> /\ Head(s) = P("]") /\ items = <<>> THEN JsonArray(items, joins, Tail(s))
    ELSE LET v == JsonValue(s) IN
         IF ~v.ok \/ v.rest = <<>> THEN JsonFail
         ELSE IF Head(v.rest) = P("]")
              THEN JsonArray(Append(items, v.str), Append(joins, v.join), Tail(v.rest))
         ELSE IF Head(v.rest) = P(",")
              THEN JsonElements(Tail(v.rest), Append(items, v.str), Append(joins, v.join))
         ELSE JsonFail

\* the members of an object after its "{" or after a ","
JsonMembers(s, keys) ==
    IF s # <<>> /\ Head(s) = P("}") /\ keys = <<>> THEN JsonObject(keys, Tail(s))
    ELSE IF Len(s) < 3 \/ s[1].k # "q" \/ s[2] # P(":") THEN JsonFail
    ELSE LET v == JsonValue(SubSeq(s, 3, Len(s))) IN
         IF ~v.ok \/ v.rest = <<>> THEN JsonFail
         ELSE IF Head(v.rest) = P("}")
              THEN JsonObject(addKey(keys, <<W(s[1].v)>>), Tail(v.rest))
         ELSE IF Head(v.rest) = P(",")
              THEN JsonMembers(Tail(v.rest), addKey(keys, <<W(s[1].v)>>))
         ELSE JsonFail

\* JSON.parse(s): the value, or ok = FALSE where it throws a SyntaxError
JSONparse(s) ==
    LET v == JsonValue(SelectSeq(s, LAMBDA u : u # P(" "))) IN
    IF v.ok /\ v.rest = <<>> THEN v ELSE JsonFail

\* parseRoles(raw): the role names, and whether the call threw
parseRoles(raw) ==
    IF raw.t = "null" THEN [threw |-> FALSE, roles |-> <<>>]
    ELSE IF raw.t \in {"list", "object"} THEN [threw |-> FALSE, roles |-> raw.items]
    ELSE LET s == trim(raw.s)
             j == JSONparse(s) IN
         IF s = <<>> THEN [threw |-> FALSE, roles |-> <<>>]
         ELSE IF j.ok /\ j.t \in {"array", "object"} THEN [threw |-> FALSE, roles |-> j.items]
         ELSE [threw |-> FALSE, roles |-> split(s)]

-----------------------------------------------------------------------------
(* Credential strings.                                                     *)
(* A stored credential is a string; the model keeps what the code and      *)
(* bcryptjs look at: its prefix, whether it is a well-formed 60-character  *)
(* bcrypt hash ("ok"), a string of another length ("short"), a             *)
(* 60-character string bcryptjs cannot decode ("bad") or ordinary text     *)
(* ("text"), the password it was made from, and the salt.                  *)

Plain(p) == [prefix |-> "", wf |-> "text", pw |-> p, salt |-> 0]
EmptyStr == Plain("")
BcryptHashOf(p, s) == [prefix |-> "$2a$", wf |-> "ok", pw |-> p, salt |-> s]
MalformedBcrypt == [prefix |-> "$2b$", wf |-> "bad", pw |-> "", salt |-> 0]
Argon2Value == [prefix |-> "$argon2id$", wf |-> "short", pw |-> "", salt |-> 0]

\* the work factor passed to bcrypt.hash
BcryptRounds == 12

\* passwordLooksHashed: classification by prefix only
passwordLooksHashed(pw) ==
    IF pw = EmptyStr THEN FALSE
    ELSE \/ pw.prefix \in {"$2a$", "$2b$", "$2y$"}
         \/ pw.prefix \in {"$argon2id$", "$argon2i$"}

\* bcrypt.compare(password, hash) of bcryptjs: "true", "false" or "throw"
bcryptCompare(password, hash) ==
    IF hash.wf # "ok" /\ hash.wf # "bad" THEN "false"
    ELSE IF hash.wf = "bad" \/ hash.prefix \notin {"$2a$", "$2b$", "$2y$"} THEN "throw"
    ELSE IF hash.pw = password THEN "true" ELSE "false"

\* bcrypt.hash(password, 12): a fresh salt per call
bcryptHash(password, rounds, salt) == BcryptHashOf(password, salt)

-----------------------------------------------------------------------------
(* Rows, query results and responses *)

AbsentRow ==
    [present |-> FALSE, username |-> <<>>, password |-> EmptyStr,
     password_hash |-> EmptyStr, roles |-> RawNull, last_login |-> 0, is_active |-> 0]

NoUser == [id_user |-> 0]
NoToken == [wf |-> FALSE]
NoResponse == [status |-> 0]

\* getUserByUsername: the row with its credential columns, or null
getUserByUsername(username) ==
    IF \E u \in UserIds : users[u].present /\ users[u].username = username
    THEN LET u == CHOOSE u \in UserIds : users[u].present /\ users[u].username = username
             common == [id_user |-> u, username |-> users[u].username,
                        password |-> users[u].password, roles |-> users[u].roles,
                        last_login |-> users[u].last_login,
                        is_active |-> users[u].is_active]
         IN  IF HAS_PASSWORD_HASH_COLUMN
             THEN [id_user |-> u, username |-> users[u].username,
                   password |-> users[u].password,
                   password_hash |-> users[u].password_hash,
                   roles |-> users[u].roles, last_login |-> users[u].last_login,
                   is_active |-> users[u].is_active]
             ELSE common
    ELSE NoUser

\* a lookup whose SELECT leaves out is_active, read as active
getUserById_WithoutIsActive(idUser) ==
    IF idUser \in UserIds /\ users[idUser].present
    THEN [id_user |-> idUser, username |-> users[idUser].username,
          roles |-> users[idUser].roles, last_login |-> users[idUser].last_login,
          is_active |-> 1]
    ELSE NoUser

\* getUserById: the row without its credential columns, or null
getUserById(idUser) ==
    IF idUser \in UserIds /\ users[idUser].present
    THEN [id_user |-> idUser, username |-> users[idUser].username,
          roles |-> users[idUser].roles, last_login |-> users[idUser].last_login,
          is_active |-> users[idUser].is_active]
    ELSE NoUser

\* a publicUser that hands the row on as it was loaded
publicUser_WholeRow(u) == u

\* publicUser
publicUser(u) ==
    IF u = NoUser THEN NoUser
    ELSE [id_user |-> u.id_user, username |-> u.username, roles |-> u.roles,
          last_login |-> u.last_login, is_active |-> u.is_active]

\* sendError(reply, status, message)
sendError(status, message) ==
    [status |-> status, message |-> message, token |-> NoToken, user |-> NoUser]

\* setErrorHandler: an error without statusCode is answered 500 "Server error"
setErrorHandler(statusCode) ==
    LET status == IF statusCode # 0 THEN statusCode ELSE 500
    IN  sendError(status, IF status >= 500 THEN "Server error" ELSE "Error")

\* jwt.sign({sub, username}, secret, {expiresIn})
jwtSign(sub, secret) ==
    [wf |-> TRUE, secret |-> secret, expired |-> FALSE,
     sub |-> sub, id_user |-> 0, idUser |-> 0]

\* a lookup check that forgets the active flag
rejectedUser_IgnoresActive(user) == user = NoUser

\* !user || String(user.is_active) === "0"
rejectedUser(user) == user = NoUser \/ user.is_active = 0

-----------------------------------------------------------------------------
(* requireAuth: the pure parts *)

\* a || b of JavaScript on ids, 0 being the falsy value
OrElse(a, b) == IF a # 0 THEN a ELSE b

\* getBearerToken: the token of an "Authorization: Bearer <token>" header
\* (the scheme is matched case-insensitively), or null
getBearerToken(h) ==
    IF ~h.present THEN NoToken
    ELSE IF h.scheme \in {"Bearer", "bearer"} /\ h.token # NoToken THEN h.token
    ELSE NoToken

\* jwt.verify(token, secret): the payload, or an error
jwtVerify(token, secret) ==
    IF token.wf /\ token.secret = secret /\ ~token.expired
    THEN [ok |-> TRUE, sub |-> token.sub, id_user |-> token.id_user, idUser |-> token.idUser]
    ELSE [ok |-> FALSE, sub |-> 0, id_user |-> 0, idUser |-> 0]

\* requireAuth up to the user lookup: the id to look up, or 0 for a 401
tokenSubject(h) ==
    LET token == getBearerToken(h)
    IN  IF token = NoToken THEN 0
        ELSE LET payload == jwtVerify(token, CFG.jwtSecret)
             IN  IF ~payload.ok THEN 0
                 ELSE OrElse(payload.sub, OrElse(payload.id_user, payload.idUser))

-----------------------------------------------------------------------------
(* POST /auth/login: the pure parts of the handler *)

\* a comparison that looks at the legacy field first
checkPassword_LegacyFirst(password, stored, storedHash) ==
    LET cmp == IF passwordLooksHashed(stored) THEN bcryptCompare(password, stored)
               ELSE IF stored # EmptyStr THEN "none"
               ELSE IF passwordLooksHashed(storedHash) THEN bcryptCompare(password, storedHash)
               ELSE "none"
        eq == stored = Plain(password)
    IN  [ok |-> IF cmp = "none" THEN eq ELSE cmp = "true",
         cmp |-> cmp,
         escaped |-> FALSE]

\* a comparison without the try/catch: the error of bcrypt.compare leaves it
checkPassword_NoCatch(password, stored, storedHash) ==
    LET cmp == IF passwordLooksHashed(storedHash) THEN bcryptCompare(password, storedHash)
               ELSE IF passwordLooksHashed(stored) THEN bcryptCompare(password, stored)
               ELSE "none"
        eq == stored = Plain(password)
    IN  [ok |-> IF cmp = "none" THEN eq ELSE cmp = "true",
         cmp |-> cmp,
         escaped |-> cmp = "throw"]

\* the try/catch around the comparison: ok, what the comparison call did, and
\* whether an error left the block
checkPassword(password, stored, storedHash) ==
    LET cmp == IF passwordLooksHashed(storedHash) THEN bcryptCompare(password, storedHash)
               ELSE IF passwordLooksHashed(stored) THEN bcryptCompare(password, stored)
               ELSE "none"
        eq == stored = Plain(password)
    IN  [ok |-> IF cmp = "none" THEN eq ELSE cmp = "true",
         cmp |-> cmp,
         escaped |-> FALSE]

\* an upgrade decision that does not look at what the dedicated field holds
migrationTarget_NoHashCheck(stored, storedHash) ==
    IF CFG.migratePlaintextPasswords /\ HAS_PASSWORD_HASH_COLUMN
    THEN "password_hash"
    ELSE IF CFG.migratePlaintextPasswords /\ ~HAS_PASSWORD_HASH_COLUMN
            /\ CFG.migratePlaintextPasswordsOverwrite /\ ~passwordLooksHashed(stored)
    THEN "password"
    ELSE "none"

\* an upgrade decision that fills the dedicated field only for a plaintext
\* legacy field
migrationTarget_PlaintextLegacyOnly(stored, storedHash) ==
    IF CFG.migratePlaintextPasswords /\ HAS_PASSWORD_HASH_COLUMN
       /\ ~passwordLooksHashed(storedHash) /\ ~passwordLooksHashed(stored)
    THEN "password_hash"
    ELSE IF CFG.migratePlaintextPasswords /\ ~HAS_PASSWORD_HASH_COLUMN
            /\ CFG.migratePlaintextPasswordsOverwrite /\ ~passwordLooksHashed(stored)
    THEN "password"
    ELSE "none"

\* an upgrade decision that overwrites the legacy field without the
\* overwrite sub-toggle
migrationTarget_IgnoresOverwrite(stored, storedHash) ==
    IF CFG.migratePlaintextPasswords /\ HAS_PASSWORD_HASH_COLUMN
       /\ ~passwordLooksHashed(storedHash)
    THEN "password_hash"
    ELSE IF CFG.migratePlaintextPasswords /\ ~HAS_PASSWORD_HASH_COLUMN
            /\ ~passwordLooksHashed(stored)
    THEN "password"
    ELSE "none"

\* an upgrade decision that overwrites the legacy field whatever it holds
migrationTarget_RehashesLegacy(stored, storedHash) ==
    IF CFG.migratePlaintextPasswords /\ HAS_PASSWORD_HASH_COLUMN
       /\ ~passwordLooksHashed(storedHash)
    THEN "password_hash"
    ELSE IF CFG.migratePlaintextPasswords /\ ~HAS_PASSWORD_HASH_COLUMN
            /\ CFG.migratePlaintextPasswordsOverwrite
    THEN "password"
    ELSE "none"

\* the upgrade decision: the column the new hash is written to, or "none"
migrationTarget(stored, storedHash) ==
    IF CFG.migratePlaintextPasswords /\ HAS_PASSWORD_HASH_COLUMN
       /\ ~passwordLooksHashed(storedHash)
    THEN "password_hash"
    ELSE IF CFG.migratePlaintextPasswords /\ ~HAS_PASSWORD_HASH_COLUMN
            /\ CFG.migratePlaintextPasswordsOverwrite /\ ~passwordLooksHashed(stored)
    THEN "password"
    ELSE "none"

\* the statements in another order: the upgrade before the check of ok
stepAfter_UpgradeBeforeCheck(at, ok, target) ==
    IF at = "verify"
    THEN IF target # "none" THEN "upgrade"
         ELSE IF ~ok THEN "reject" ELSE "touch"
    ELSE IF ~ok THEN "reject" ELSE "touch"

\* a handler without the return on a failed comparison
stepAfter_NeverRejects(at, ok, target) ==
    IF at = "verify"
    THEN IF target # "none" THEN "upgrade" ELSE "touch"
    ELSE "touch"

\* the order of the statements after the comparison: where the handler goes
\* after the comparison ("verify") and after the upgrade write ("upgrade")
stepAfter(at, ok, target) ==
    IF at = "verify"
    THEN IF ~ok THEN "reject"
         ELSE IF target # "none" THEN "upgrade" ELSE "touch"
    ELSE "touch"

-----------------------------------------------------------------------------
(* Initial state *)

Passwords == {"p1", "p2"}

\* what users.password can hold: empty, plaintext, a bcrypt hash, a string
\* with a bcrypt prefix that bcryptjs cannot decode, an argon2 string
LegacyValues ==
    {EmptyStr, MalformedBcrypt, Argon2Value}
    \cup {Plain(p) : p \in Passwords} \cup {BcryptHashOf("p1", 0)}

\* what users.password_hash can hold when the column exists
HashColumnValues ==
    {EmptyStr, Plain("p1"), MalformedBcrypt, Argon2Value, BcryptHashOf("p1", 0)}

IdleLogin ==
    [pc |-> "idle", username |-> <<>>, password |-> "", user |-> NoUser,
     cmp |-> "none", ok |-> FALSE, target |-> "none", hash |-> EmptyStr,
     upgrade |-> "none", touched |-> 0, resp |-> NoResponse]

NoHeader == [present |-> FALSE, scheme |-> "", token |-> NoToken]

IdleReq ==
    [pc |-> "idle", header |-> NoHeader, idUser |-> 0,
     cagUser |-> NoUser, ran |-> FALSE, resp |-> NoResponse]

\* env("WRITE_ROLES", "admin,manager") through parseCsv and toLowerCase
DefaultWriteRoles == << <<W("admin")>>, <<W("manager")>> >>

\* a request to a mutating endpoint that has not arrived yet
IdleWrite ==
    [pc |-> "idle", route |-> "", header |-> NoHeader, idUser |-> 0,
     cagUser |-> NoUser, wrote |-> FALSE, resp |-> NoResponse]

\* the tables the catalogue and reporting routes use, as lists of rows,
\* and the AUTO_INCREMENT counters of products, of sales and of offers
EmptyStore ==
    [products |-> <<>>, autoInc |-> 1, sales |-> <<>>, salesInc |-> 1, sales_details |-> <<>>,
     product_offers |-> <<>>, offerInc |-> 1, product_offers_products |-> <<>>]

IdleDash == [pc |-> "idle"]

\* the offer tables as one transaction sees them
NoWork == [offers |-> <<>>, links |-> <<>>]

\* the pool: the number of connections checked out, and whether the pooled
\* connection has a transaction open, with the tables as that transaction
\* sees them
IdlePool == [out |-> 0, txn |-> FALSE, work |-> NoWork]

\* a request to a mutating /offers endpoint that has not arrived yet
IdleOffer ==
    [pc |-> "idle", route |-> "", id |-> 0, todo |-> <<>>, k |-> 0, offerId |-> 0,
     missing |-> FALSE, err |-> "none", lost |-> FALSE, acquired |-> 0, released |-> 0,
     before |-> NoWork, resp |-> NoResponse]

\* the widget before mount()
\* state.sales / state.products and the panel of the view: null and an empty
\* view until the view is first refreshed (tables: the offset of the page each table
\* of the panel shows; footers, empties: how many the panel holds)
NoList ==
    [built |-> FALSE, q |-> "", offset |-> 0, prevOff |-> FALSE, nextOff |-> FALSE,
     empties |-> 0, tables |-> <<>>, footers |-> 0]

\* state.kpis before the first summary
NoSummary == [loaded |-> FALSE, from |-> 0, to |-> 0]

\* the widget before mount (a date input that is empty holds 0)
IdleWidget ==
    [pc |-> "idle", range |-> [from |-> 0, to |-> 0], fromInput |-> 0, toInput |-> 0,
     busy |-> FALSE, kpis |-> NoSummary, overview |-> "empty", flights |-> <<>>,
     view |-> "overview", lists |-> [sales |-> NoList, products |-> NoList],
     loads |-> <<>>]

NoCall == [fn |-> "none", done |-> FALSE]

Init ==
    /\ CFG \in [migratePlaintextPasswords : BOOLEAN,
                 migratePlaintextPasswordsOverwrite : BOOLEAN,
                 jwtSecret : {"secret"},
                 enforceRoles : {TRUE},
                 writeRoles : {DefaultWriteRoles}]
    /\ HAS_PASSWORD_HASH_COLUMN \in BOOLEAN
    /\ users \in [UserIds ->
                    [present : {TRUE}, username : {UsernameOf(u) : u \in UserIds},
                     password : LegacyValues,
                     password_hash : IF HAS_PASSWORD_HASH_COLUMN
                                     THEN HashColumnValues ELSE {EmptyStr},
                     roles : {RawString(<<W("admin")>>)}, last_login : {0}, is_active : {1}]]
    /\ \A u \in UserIds : users[u].username = UsernameOf(u)
    /\ started = 0
    /\ salts = 0
    /\ clock = 0
    /\ login = [l \in LoginSlots |-> IdleLogin]
    /\ req = [r \in ReqSlots |-> IdleReq]
    /\ wreq = [r \in WriteSlots |-> IdleWrite]
    /\ store = EmptyStore
    /\ dash = IdleDash
    /\ call = NoCall
    /\ pool = IdlePool
    /\ oreq = IdleOffer
    /\ widget = IdleWidget

-----------------------------------------------------------------------------
(* POST /auth/login *)

\* what the request body can carry as username and as password: a value
\* that is no string, or a string
NotAString(empty) == [isString |-> FALSE, text |-> empty]
Str(t) == [isString |-> TRUE, text |-> t]

Bodies ==
    {[username |-> Str(n), password |-> Str(p)] :
        n \in {<<"a">>, <<" ", "a">>, <<"b">>}, p \in Passwords}
    \cup {[username |-> NotAString(<<>>), password |-> Str("p1")],
          [username |-> Str(<<" ">>), password |-> Str("p1")],
          [username |-> Str(<<"a">>), password |-> NotAString("")],
          [username |-> Str(<<"a">>), password |-> Str("")]}

\* a request is served in the lowest free slot
FreeSlot(l) ==
    /\ login[l].pc \in {"idle", "done"}
    /\ \A k \in LoginSlots : k < l => login[k].pc \notin {"idle", "done"}

\* the handler up to the first await: body parsing and the 400
LoginStart(l, body) ==
    /\ FreeSlot(l)
    /\ started < MaxLogins
    /\ started' = started + 1
    /\ LET username == IF body.username.isString THEN Trim(body.username.text) ELSE <<>>
           password == IF body.password.isString THEN body.password.text ELSE ""
       IN  login' = [login EXCEPT ![l] =
                IF username = <<>> \/ password = ""
                THEN [IdleLogin EXCEPT !.pc = "done",
                                       !.resp = sendError(400, "Missing username/password")]
                ELSE [IdleLogin EXCEPT !.pc = "lookup", !.username = username,
                                       !.password = password]]
    /\ UNCHANGED <<users, CFG, HAS_PASSWORD_HASH_COLUMN, salts, clock, req>>
    /\ UNCHANGED dataVars

\* getUserByUsername resolves; the comparison and the upgrade decision follow
\* without touching the store
LoginLookup(l) ==
    /\ login[l].pc = "lookup"
    /\ LET user == getUserByUsername(login[l].username)
           cur == login[l]
       IN  IF rejectedUser(user)
           THEN /\ login' = [login EXCEPT ![l] =
                        [cur EXCEPT !.pc = "done", !.user = user,
                                    !.resp = sendError(401, "Invalid credentials")]]
                /\ salts' = salts
           ELSE LET stored == user.password
                    storedHash == IF HAS_PASSWORD_HASH_COLUMN
                                  THEN user.password_hash ELSE EmptyStr
                    chk == checkPassword(cur.password, stored, storedHash)
                    target == migrationTarget(stored, storedHash)
                    next == stepAfter("verify", chk.ok, target)
                    seen == [cur EXCEPT !.user = user, !.cmp = chk.cmp, !.ok = chk.ok]
                    hashes == ~chk.escaped /\ next = "upgrade"
                IN  /\ login' = [login EXCEPT ![l] =
                            IF chk.escaped
                            THEN [seen EXCEPT !.pc = "done", !.resp = setErrorHandler(0)]
                            ELSE IF next = "reject"
                            THEN [seen EXCEPT !.pc = "done",
                                      !.resp = sendError(401, "Invalid credentials")]
                            ELSE IF next = "upgrade"
                            THEN [seen EXCEPT !.pc = "upgrade", !.target = target,
                                      !.hash = bcryptHash(cur.password, BcryptRounds, salts + 1)]
                            ELSE [seen EXCEPT !.pc = "touch"]]
                    /\ salts' = IF hashes THEN salts + 1 ELSE salts
    /\ UNCHANGED <<users, CFG, HAS_PASSWORD_HASH_COLUMN, started, clock, req>>
    /\ UNCHANGED dataVars

\* UPDATE users SET <target> = ? WHERE id_user = ?; the query can fail, and
\* its error is not caught by the handler
LoginUpgrade(l, fails) ==
    /\ login[l].pc = "upgrade"
    /\ LET cur == login[l]
           u == cur.user.id_user
           next == stepAfter("upgrade", cur.ok, cur.target)
       IN  IF fails
           THEN /\ login' = [login EXCEPT ![l] =
                        [cur EXCEPT !.pc = "done", !.upgrade = "failed",
                                    !.resp = setErrorHandler(0)]]
                /\ users' = users
           ELSE /\ users' = IF users[u].present
                             THEN IF cur.target = "password_hash"
                                  THEN [users EXCEPT ![u].password_hash = cur.hash]
                                  ELSE [users EXCEPT ![u].password = cur.hash]
                             ELSE users
                /\ login' = [login EXCEPT ![l] =
                        IF next = "reject"
                        THEN [cur EXCEPT !.pc = "done", !.upgrade = "written",
                                  !.resp = sendError(401, "Invalid credentials")]
                        ELSE [cur EXCEPT !.pc = "touch", !.upgrade = "written"]]
    /\ UNCHANGED <<CFG, HAS_PASSWORD_HASH_COLUMN, started, salts, clock, req>>
    /\ UNCHANGED dataVars

\* UPDATE users SET last_login = NOW() WHERE id_user = ?
LoginTouch(l) ==
    /\ login[l].pc = "touch"
    /\ clock' = clock + 1
    /\ LET u == login[l].user.id_user
       IN  users' = IF users[u].present
                    THEN [users EXCEPT ![u].last_login = clock + 1]
                    ELSE users
    /\ login' = [login EXCEPT ![l].pc = "reply", ![l].touched = clock + 1]
    /\ UNCHANGED <<CFG, HAS_PASSWORD_HASH_COLUMN, started, salts, req>>
    /\ UNCHANGED dataVars

\* jwt.sign and reply.send({token, user})
LoginReply(l) ==
    /\ login[l].pc = "reply"
    /\ login' = [login EXCEPT ![l].pc = "done",
                               ![l].resp = [status |-> 200, message |-> "",
                                            token |-> jwtSign(login[l].user.id_user, CFG.jwtSecret),
                                            user |-> publicUser(login[l].user)]]
    /\ UNCHANGED <<users, CFG, HAS_PASSWORD_HASH_COLUMN, started, salts, clock, req>>
    /\ UNCHANGED dataVars

-----------------------------------------------------------------------------
(* The users table is also written from outside this program (the POS). *)

Deactivate(u) ==
    /\ users[u].present
    /\ users[u].is_active = 1
    /\ users' = [users EXCEPT ![u].is_active = 0]
    /\ UNCHANGED <<CFG, HAS_PASSWORD_HASH_COLUMN, started, salts, clock, login, req>>
    /\ UNCHANGED dataVars

DeleteUser(u) ==
    /\ users[u].present
    /\ users' = [users EXCEPT ![u] = AbsentRow]
    /\ UNCHANGED <<CFG, HAS_PASSWORD_HASH_COLUMN, started, salts, clock, login, req>>
    /\ UNCHANGED dataVars

-----------------------------------------------------------------------------
(* Protected routes: preHandler requireAuth, then the handler (GET /auth/me) *)

\* the tokens a client can present: any payload, signed with the server's
\* secret or with another one, expired or not, or a string that is no JWT
Tokens ==
    [wf : {TRUE}, secret : {"secret", "other"}, expired : BOOLEAN,
     sub : SubjectIds, id_user : {0} \cup UserIds, idUser : {0} \cup UserIds]
    \cup {[wf |-> FALSE, secret |-> "", expired |-> FALSE,
           sub |-> 0, id_user |-> 0, idUser |-> 0]}

Headers ==
    {NoHeader}
    \cup {[present |-> TRUE, scheme |-> "Bearer", token |-> t] : t \in Tokens \cup {NoToken}}
    \cup {[present |-> TRUE, scheme |-> k, token |-> jwtSign(u, "secret")] :
            k \in {"bearer", "Basic"}, u \in UserIds}

FreeReqSlot(r) ==
    /\ req[r].pc \in {"idle", "done"}
    /\ \A k \in ReqSlots : k < r => req[k].pc \notin {"idle", "done"}

\* requireAuth up to the first await
ReqStart(r, h) ==
    /\ FreeReqSlot(r)
    /\ LET idUser == tokenSubject(h)
       IN  req' = [req EXCEPT ![r] =
                IF idUser = 0
                THEN [IdleReq EXCEPT !.pc = "done", !.header = h,
                                     !.resp = sendError(401, "Unauthorized")]
                ELSE [IdleReq EXCEPT !.pc = "lookup", !.header = h, !.idUser = idUser]]
    /\ UNCHANGED <<users, CFG, HAS_PASSWORD_HASH_COLUMN, started, salts, clock, login>>
    /\ UNCHANGED dataVars

\* getUserById resolves; req.cagUser is set or the request is answered 401
ReqLookup(r) ==
    /\ req[r].pc = "lookup"
    /\ LET user == getUserById(req[r].idUser)
       IN  req' = [req EXCEPT ![r] =
                IF rejectedUser(user)
                THEN [@ EXCEPT !.pc = "done", !.resp = sendError(401, "Unauthorized")]
                ELSE [@ EXCEPT !.pc = "handler", !.cagUser = user]]
    /\ UNCHANGED <<users, CFG, HAS_PASSWORD_HASH_COLUMN, started, salts, clock, login>>
    /\ UNCHANGED dataVars

\* the route handler: return {user: publicUser(req.cagUser)}
ReqHandler(r) ==
    /\ req[r].pc = "handler"
    /\ req' = [req EXCEPT ![r].pc = "done", ![r].ran = TRUE,
                           ![r].resp = [status |-> 200, message |-> "",
                                        token |-> NoToken,
                                        user |-> publicUser(req[r].cagUser)]]
    /\ UNCHANGED <<users, CFG, HAS_PASSWORD_HASH_COLUMN, started, salts, clock, login>>
    /\ UNCHANGED dataVars

-----------------------------------------------------------------------------
(* Specifications *)

\* logins of any number of clients, interleaved at every await
Next ==
    \/ \E l \in LoginSlots, body \in Bodies : LoginStart(l, body)
    \/ \E l \in LoginSlots : LoginLookup(l)
    \/ \E l \in LoginSlots, fails \in BOOLEAN : LoginUpgrade(l, fails)
    \/ \E l \in LoginSlots : LoginTouch(l)
    \/ \E l \in LoginSlots : LoginReply(l)
    \/ \E u \in UserIds : Deactivate(u)
    \/ \E u \in UserIds : DeleteUser(u)

Spec == Init /\ [][Next]_vars

\* no login request in flight
NoLoginInFlight == \A l \in LoginSlots : login[l].pc \in {"idle", "done"}

\* logins one after the other: a request arrives after the previous response
SeqNext ==
    \/ \E l \in LoginSlots, body \in Bodies : NoLoginInFlight /\ LoginStart(l, body)
    \/ \E l \in LoginSlots : LoginLookup(l)
    \/ \E l \in LoginSlots, fails \in BOOLEAN : LoginUpgrade(l, fails)
    \/ \E l \in LoginSlots : LoginTouch(l)
    \/ \E l \in LoginSlots : LoginReply(l)
    \/ \E u \in UserIds : Deactivate(u)
    \/ \E u \in UserIds : DeleteUser(u)

SpecSeq == Init /\ [][SeqNext]_vars

\* protected requests, interleaved, over a users table that changes
InitAuth ==
    /\ Init
    /\ ~HAS_PASSWORD_HASH_COLUMN
    /\ ~CFG.migratePlaintextPasswords
    /\ ~CFG.migratePlaintextPasswordsOverwrite
    /\ \A u \in UserIds : users[u].password = Plain("p1")

AuthNext ==
    \/ \E r \in ReqSlots, h \in Headers : ReqStart(r, h)
    \/ \E r \in ReqSlots : ReqLookup(r)
    \/ \E r \in ReqSlots : ReqHandler(r)
    \/ \E u \in UserIds : Deactivate(u)
    \/ \E u \in UserIds : DeleteUser(u)

SpecAuth == InitAuth /\ [][AuthNext]_vars

-----------------------------------------------------------------------------
(* Properties of POST /auth/login *)

\* the value of the dedicated hash field as login l read it
StoredHashOf(l) ==
    IF HAS_PASSWORD_HASH_COLUMN THEN login[l].user.password_hash ELSE EmptyStr

\* both rows exist, before and after the step
RowKept(u) == users[u].present /\ users'[u].present

\* login l is about to apply its upgrade write to field f of row u
Upgrading(l, u, f) ==
    /\ login[l].pc = "upgrade"
    /\ login[l].target = f
    /\ login[l].user.id_user = u

\* C1: when the password verifies and the upgrade write fails, the request
\* still succeeds: it is answered {token, user}, not an error status.
C1_UpgradeFailureStillSucceeds ==
    \A l \in LoginSlots :
        login[l].upgrade = "failed" /\ login[l].pc = "done"
        => login[l].resp.status = 200 /\ login[l].resp.token # NoToken

\* C2 as stated: in every interleaving of logins, an upgrade write never
\* replaces a stored credential value that is classified as hashed at the
\* moment the write is applied.
C2_NeverReplacesHashed ==
    [][\A u \in UserIds :
        RowKept(u) =>
            /\ users'[u].password_hash # users[u].password_hash
               => ~passwordLooksHashed(users[u].password_hash)
            /\ users'[u].password # users[u].password
               => ~passwordLooksHashed(users[u].password)]_vars

\* C2 amended: every credential write is the upgrade write of a login that
\* read the field as not hashed, and stores a hash; the value it replaces is
\* hashed only if it is not the value that login read but a hash that the
\* upgrade write of another login stored in between.  A hash that was in
\* the table before the logins is never replaced.
C2_WritesOverUnhashedAsRead ==
    [][\A u \in UserIds :
        RowKept(u) =>
            /\ users'[u].password_hash # users[u].password_hash
               => \E l \in LoginSlots :
                    /\ Upgrading(l, u, "password_hash")
                    /\ ~passwordLooksHashed(login[l].user.password_hash)
                    /\ users'[u].password_hash = login[l].hash
                    /\ passwordLooksHashed(login[l].hash)
                    /\ passwordLooksHashed(users[u].password_hash)
                       => /\ users[u].password_hash # login[l].user.password_hash
                          /\ users[u].password_hash.salt # 0
            /\ users'[u].password # users[u].password
               => \E l \in LoginSlots :
                    /\ Upgrading(l, u, "password")
                    /\ ~passwordLooksHashed(login[l].user.password)
                    /\ users'[u].password = login[l].hash
                    /\ passwordLooksHashed(login[l].hash)
                    /\ passwordLooksHashed(users[u].password)
                       => /\ users[u].password # login[l].user.password
                          /\ users[u].password.salt # 0]_vars

\* two logins of the same user have both applied their upgrade write
C2_Witness ==
    \E l, k \in LoginSlots :
        /\ l # k
        /\ login[l].upgrade = "written" /\ login[k].upgrade = "written"
        /\ login[l].user.id_user = login[k].user.id_user
        /\ login[l].target = login[k].target
        /\ \E u \in UserIds : users[u].present /\ users[u].password_hash = login[l].hash

\* C3 as stated: whenever the dedicated field exists and holds no hash, every
\* successful verification computes a hash and writes it to that field.
C3_AlwaysUpgradesDedicated ==
    \A l \in LoginSlots :
        login[l].ok /\ HAS_PASSWORD_HASH_COLUMN /\ ~passwordLooksHashed(StoredHashOf(l))
        => login[l].pc = "upgrade" \/ login[l].upgrade \in {"written", "failed"}

\* the decision of a login that verified, read an unhashed dedicated field
\* and runs with the migration toggle on
C3_Decision ==
    \A l \in LoginSlots :
        /\ login[l].ok
        /\ HAS_PASSWORD_HASH_COLUMN
        /\ ~passwordLooksHashed(StoredHashOf(l))
        /\ CFG.migratePlaintextPasswords
        => /\ login[l].pc = "upgrade" \/ login[l].upgrade \in {"written", "failed"}
           /\ login[l].target = "password_hash"
           /\ login[l].hash.pw = login[l].password
           /\ login[l].hash.wf = "ok"
           /\ passwordLooksHashed(login[l].hash)

\* the upgrade write of such a login stores its hash in the dedicated field
C3_Write ==
    \A l \in LoginSlots, u \in UserIds :
        /\ Upgrading(l, u, "password_hash")
        /\ login'[l].upgrade = "written"
        /\ RowKept(u)
        => users'[u].password_hash = login[l].hash /\ users'[u].password = users[u].password

\* C3 amended: with the migration toggle (MIGRATE_PLAINTEXT_PASSWORDS) on,
\* whenever the dedicated field exists and the value read from it is not
\* classified as hashed, every successful verification computes a new hash of
\* the presented password and issues its write to the dedicated field,
\* whatever the legacy field holds; the write, when the store accepts it,
\* puts that hash in the dedicated field.
C3_UpgradesDedicatedWhenToggled == []C3_Decision /\ [][C3_Write]_vars

\* a login answered 200 has filled the dedicated field of a user whose
\* legacy field holds a hash
C3_Witness ==
    \E l \in LoginSlots, u \in UserIds :
        /\ HAS_PASSWORD_HASH_COLUMN
        /\ login[l].resp.status = 200
        /\ login[l].upgrade = "written"
        /\ login[l].target = "password_hash"
        /\ login[l].user.id_user = u
        /\ passwordLooksHashed(login[l].user.password)
        /\ users[u].password_hash = login[l].hash

\* C4 as stated: without a dedicated field, a successful login overwrites the
\* legacy field iff it is plaintext and the overwrite policy
\* (MIGRATE_PLAINTEXT_PASSWORDS_OVERWRITE) is enabled.
C4_OverwritesIffPlaintextAndOverwrite ==
    ~HAS_PASSWORD_HASH_COLUMN =>
        \A l \in LoginSlots :
            login[l].resp.status = 200
            => (login[l].upgrade = "written"
                <=> /\ ~passwordLooksHashed(login[l].user.password)
                    /\ CFG.migratePlaintextPasswordsOverwrite)

\* what a login answered 200 did, without a dedicated field
C4_Decision ==
    ~HAS_PASSWORD_HASH_COLUMN =>
        \A l \in LoginSlots :
            login[l].resp.status = 200
            => /\ login[l].upgrade = "written"
                  <=> /\ ~passwordLooksHashed(login[l].user.password)
                      /\ CFG.migratePlaintextPasswords
                      /\ CFG.migratePlaintextPasswordsOverwrite
               /\ login[l].upgrade \in {"written", "none"}
               /\ login[l].upgrade = "written"
                  => /\ login[l].target = "password"
                     /\ login[l].hash.pw = login[l].password
                     /\ passwordLooksHashed(login[l].hash)

\* the credential writes without a dedicated field
C4_Write ==
    ~HAS_PASSWORD_HASH_COLUMN =>
        \A u \in UserIds :
            RowKept(u) =>
                /\ users'[u].password_hash = users[u].password_hash
                /\ users'[u].password # users[u].password
                   => \E l \in LoginSlots :
                        /\ Upgrading(l, u, "password")
                        /\ login'[l].upgrade = "written"
                        /\ users'[u].password = login[l].hash
                /\ \A l \in LoginSlots :
                        Upgrading(l, u, "password") /\ login'[l].upgrade = "written"
                        => users'[u].password = login[l].hash

\* C4 amended: when no dedicated hash field exists, a successful login
\* overwrites the legacy password field with a new hash if and only if the
\* legacy value is plaintext and both the migration toggle
\* (MIGRATE_PLAINTEXT_PASSWORDS) and its overwrite sub-toggle are enabled;
\* with either toggle disabled, or the legacy value already hashed, the login
\* writes no credential field.
C4_OverwritesIffPlaintextAndBothToggles == []C4_Decision /\ [][C4_Write]_vars

\* a login answered 200 has overwritten the legacy field
C4_Witness ==
    \E l \in LoginSlots, u \in UserIds :
        /\ ~HAS_PASSWORD_HASH_COLUMN
        /\ login[l].resp.status = 200
        /\ login[l].upgrade = "written"
        /\ login[l].user.id_user = u
        /\ login[l].user.password = Plain(login[l].password)
        /\ users[u].password = login[l].hash

\* the field the schema makes the migration write to holds a hash
Migrated(u) ==
    IF HAS_PASSWORD_HASH_COLUMN
    THEN passwordLooksHashed(users[u].password_hash)
    ELSE passwordLooksHashed(users[u].password)

\* C5: over sequential logins migration is idempotent: once the credential of
\* a user is migrated, no later login changes either credential field (the
\* hash written first is never recomputed or replaced), and a field that
\* holds a hash is never written.
C5_MigrationIdempotent ==
    [][\A u \in UserIds :
        RowKept(u) =>
            /\ Migrated(u)
               => /\ users'[u].password_hash = users[u].password_hash
                  /\ users'[u].password = users[u].password
            /\ passwordLooksHashed(users[u].password_hash)
               => users'[u].password_hash = users[u].password_hash
            /\ passwordLooksHashed(users[u].password)
               => users'[u].password = users[u].password]_vars

\* the hash an earlier login wrote (its salt was drawn in this run) is still
\* in the table after a later login of that user with the same password,
\* which read it, was answered 200 and wrote no credential
C5_Witness ==
    \E l \in LoginSlots, u \in UserIds :
        /\ login[l].resp.status = 200
        /\ login[l].upgrade = "none"
        /\ login[l].user.id_user = u
        /\ users[u].present
        /\ LET h == IF HAS_PASSWORD_HASH_COLUMN
                    THEN users[u].password_hash ELSE users[u].password
               seen == IF HAS_PASSWORD_HASH_COLUMN
                       THEN login[l].user.password_hash ELSE login[l].user.password
           IN  h.salt # 0 /\ h.pw = login[l].password /\ seen = h

\* a login answered 400 or 401 has issued no write and no token
C6_NoEffect ==
    \A l \in LoginSlots :
        login[l].resp.status \in {400, 401}
        => /\ login[l].upgrade = "none"
           /\ login[l].touched = 0
           /\ login[l].resp.token = NoToken
           /\ login[l].resp.user = NoUser

\* the step that answers 400 or 401 leaves the users table as it is
C6_Frame ==
    \A l \in LoginSlots :
        login'[l] # login[l] /\ login'[l].resp.status \in {400, 401}
        => users' = users

\* a login that has not verified does not write
C6_OnlyVerifiedWrite ==
    \A l \in LoginSlots :
        login[l].pc \in {"upgrade", "touch", "reply"} => login[l].ok

\* C6: a login whose verification fails (unknown user, inactive user, wrong
\* password, missing username or password) leaves the users table unchanged:
\* no credential field is written, last_login is not updated, no token is
\* issued.
C6_FailedLoginChangesNothing ==
    []C6_NoEffect /\ []C6_OnlyVerifiedWrite /\ [][C6_Frame]_vars

\* a wrong password for an active user whose credential the migration would
\* upgrade is answered 401
C6_Witness ==
    \E l \in LoginSlots :
        /\ login[l].resp.status = 401
        /\ login[l].user # NoUser
        /\ login[l].user.is_active = 1
        /\ ~login[l].ok
        /\ migrationTarget(login[l].user.password, StoredHashOf(l)) # "none"

\* C7: every login on which the password verifies for an active user
\* updates last_login before it responds, and is answered with the token.
C7_VerifiedLoginTouches ==
    \A l \in LoginSlots :
        login[l].pc = "done" /\ login[l].ok
        => login[l].touched # 0 /\ login[l].resp.status = 200

\* h is a well-formed bcrypt hash of password p
ValidBcryptOf(h, p) ==
    h.wf = "ok" /\ h.prefix \in {"$2a$", "$2b$", "$2y$"} /\ h.pw = p

\* login l has compared the presented password with what it read
Compared(l) ==
    /\ login[l].pc \notin {"idle", "lookup"}
    /\ login[l].user # NoUser
    /\ login[l].user.is_active # 0

ComparedValue(l) ==
    IF passwordLooksHashed(StoredHashOf(l)) THEN StoredHashOf(l)
    ELSE login[l].user.password

\* C9: when the hash comparison fails on the stored value (it throws, or the
\* value has a hash prefix and is no hash it can process), login treats it
\* as a non-match: 401 "Invalid credentials", never a 500, nothing written.
C9_CompareFailureIsNonMatch ==
    \A l \in LoginSlots :
        /\ Compared(l)
        /\ \/ login[l].cmp = "throw"
           \/ /\ passwordLooksHashed(ComparedValue(l))
              /\ ComparedValue(l).wf # "ok"
        => /\ login[l].pc = "done"
           /\ login[l].resp = sendError(401, "Invalid credentials")
           /\ login[l].upgrade = "none"
           /\ login[l].touched = 0

\* bcrypt.compare has thrown on the stored value
C9_Witness ==
    \E l \in LoginSlots : login[l].cmp = "throw" /\ login[l].pc = "done"

-----------------------------------------------------------------------------
(* Properties of requireAuth *)

\* the subject id the payload of a token names (sub, else id_user, else idUser)
SubjectOf(t) == OrElse(t.sub, OrElse(t.id_user, t.idUser))

\* the request carried a well-formed Bearer token, signed with the
\* configured secret, not expired, that names a subject
GoodToken(h) ==
    /\ h.present
    /\ h.scheme \in {"Bearer", "bearer"}
    /\ h.token # NoToken
    /\ h.token.wf
    /\ h.token.secret = CFG.jwtSecret
    /\ ~h.token.expired
    /\ SubjectOf(h.token) # 0

\* the handler runs only behind a good token and with the active user the
\* token names attached; every request that ends otherwise is a 401
C10_Gate ==
    \A r \in ReqSlots :
        /\ req[r].pc = "handler" \/ req[r].ran
           => /\ GoodToken(req[r].header)
              /\ req[r].cagUser # NoUser
              /\ req[r].cagUser.id_user = SubjectOf(req[r].header.token)
              /\ req[r].cagUser.is_active = 1
        /\ req[r].pc = "done" /\ ~req[r].ran
           => req[r].resp = sendError(401, "Unauthorized")
        /\ req[r].pc = "done" /\ ~GoodToken(req[r].header)
           => ~req[r].ran /\ req[r].resp.status = 401
        /\ req[r].ran => req[r].resp.status = 200

\* the lookup lets the request through iff the row exists and is active then
C10_Lookup ==
    \A r \in ReqSlots :
        req[r].pc = "lookup" /\ req'[r].pc # "lookup"
        => LET u == req[r].idUser
               usable == u \in UserIds /\ users[u].present /\ users[u].is_active = 1
           IN  IF usable
               THEN req'[r].pc = "handler" /\ req'[r].cagUser = getUserById(u)
               ELSE /\ req'[r].pc = "done"
                    /\ ~req'[r].ran
                    /\ req'[r].resp = sendError(401, "Unauthorized")

\* C10: a protected route handler runs, with the resolved user attached, only
\* if the request carried a well-formed Bearer token with a valid signature
\* under the configured secret, not expired, and the user its subject names
\* exists and is active at lookup time; in every other case the response is
\* 401 and the handler does not run.
C10_HandlerOnlyBehindAuth == []C10_Gate /\ [][C10_Lookup]_vars

\* one request has run its handler, another one with a good token was
\* refused because the user was no longer usable at lookup time
C10_Witness ==
    \E r \in ReqSlots :
        /\ req[r].pc = "done"
        /\ GoodToken(req[r].header)
        /\ req[r].idUser \in UserIds
        /\ ~req[r].ran
        /\ req[r].resp.status = 401

-----------------------------------------------------------------------------
(* Mutating endpoints: preHandler [requireAuth, requireWrite], then the    *)
(* handler.  POST /products and DELETE /products/:id stand for the six     *)
(* routes, which all carry the same preHandler list.                       *)

\* a column value that may be NULL
Null == [null |-> TRUE, v |-> 0]
Val(n) == [null |-> FALSE, v |-> n]

\* products ever inserted in one behaviour
MaxProducts == 2

Range(f) == {f[i] : i \in DOMAIN f}

\* hasWriteRole that compares the role names as stored
hasWriteRole_CaseSensitive(user) ==
    IF ~CFG.enforceRoles THEN TRUE
    ELSE LET roles == parseRoles(user.roles).roles
         IN  \E i \in DOMAIN CFG.writeRoles : CFG.writeRoles[i] \in Range(roles)

\* hasWriteRole(user)
hasWriteRole(user) ==
    IF ~CFG.enforceRoles THEN TRUE
    ELSE LET parsed == parseRoles(user.roles).roles
             roles == [i \in DOMAIN parsed |-> toLowerCase(parsed[i])]
         IN  \E i \in DOMAIN CFG.writeRoles : CFG.writeRoles[i] \in Range(roles)

\* requireWrite(req, reply): the response it sends, or none
requireWrite(user) ==
    IF ~hasWriteRole(user) THEN sendError(403, "Forbidden") ELSE NoResponse

\* what users.roles holds in the model
RoleValues ==
    {RawNull, RawNumber(5),
     RawString(<<W("admin")>>), RawString(<<W("viewer")>>),
     RawString(<<P(" "), W("viewer"), P(","), P(" "), W("Manager")>>),
     RawString(<<P("["), Q("ADMIN"), P("]")>>),
     RawString(<<P("{"), Q("manager"), P(":"), W("true"), P("}")>>),
     RawString(<<P("{"), Q("viewer"), P(":"), W("true"), P("}")>>),
     RawString(<<Q("admin")>>),
     RawList(<< <<W("viewer")>>, <<W("Admin")>> >>), RawList(<<>>),
     RawObject(<< <<W("manager")>> >>)}

WriteHeaders ==
    {NoHeader}
    \cup {[present |-> TRUE, scheme |-> "Bearer", token |-> jwtSign(u, k)] :
            u \in SubjectIds \ {0}, k \in {"secret", "other"}}

Routes == {"POST /products", "DELETE /products/:id"}

\* the bodies of POST /products: b.name and b.purchasePrice
ProductBodies ==
    [name : {NotAString(<<>>), Str(<<" ">>), Str(<<" ", "n">>)},
     purchasePrice : {Null, Val(5)}]

FreeWriteSlot(r) ==
    /\ wreq[r].pc \in {"idle", "done", "stalled"}
    /\ \A k \in WriteSlots : k < r => wreq[k].pc \notin {"idle", "done", "stalled"}

\* requireAuth up to the first await
WriteStart(r, h, route) ==
    /\ FreeWriteSlot(r)
    /\ LET idUser == tokenSubject(h)
       IN  wreq' = [wreq EXCEPT ![r] =
                IF idUser = 0
                THEN [IdleWrite EXCEPT !.pc = "done", !.route = route, !.header = h,
                                       !.resp = sendError(401, "Unauthorized")]
                ELSE [IdleWrite EXCEPT !.pc = "lookup", !.route = route, !.header = h,
                                       !.idUser = idUser]]
    /\ UNCHANGED <<users, CFG, HAS_PASSWORD_HASH_COLUMN, started, salts, clock, login, req>>
    /\ UNCHANGED <<store, dash, call>>
    /\ UNCHANGED sideVars

\* getUserById resolves: the request is answered 401, or req.cagUser is set
\* and requireWrite runs.  requireWrite sends 403 or returns nothing; it is
\* no async function and takes no continuation, so whether the framework
\* then goes on to the handler is left open (continues).
WriteGate(r, continues) ==
    /\ wreq[r].pc = "lookup"
    /\ LET user == getUserById(wreq[r].idUser)
       IN  wreq' = [wreq EXCEPT ![r] =
                IF rejectedUser(user)
                THEN [@ EXCEPT !.pc = "done", !.resp = sendError(401, "Unauthorized")]
                ELSE IF requireWrite(user) # NoResponse
                THEN [@ EXCEPT !.pc = "done", !.cagUser = user, !.resp = requireWrite(user)]
                ELSE [@ EXCEPT !.pc = IF continues THEN "handler" ELSE "stalled",
                               !.cagUser = user]]
    /\ UNCHANGED <<users, CFG, HAS_PASSWORD_HASH_COLUMN, started, salts, clock, login, req>>
    /\ UNCHANGED <<store, dash, call>>
    /\ UNCHANGED sideVars

\* the handler of POST /products
PostProduct(r, b) ==
    /\ wreq[r].pc = "handler"
    /\ wreq[r].route = "POST /products"
    /\ IF (IF b.name.isString THEN Trim(b.name.text) ELSE <<>>) = <<>>
       THEN /\ wreq' = [wreq EXCEPT ![r].pc = "done",
                                    ![r].resp = sendError(400, "Missing name")]
            /\ UNCHANGED store
       ELSE /\ store.autoInc <= MaxProducts
            /\ store' = [store EXCEPT
                   !.products = Append(@, [id_product |-> store.autoInc, name |-> Trim(b.name.text),
                                           purchasePrice |-> b.purchasePrice]),
                   !.autoInc = @ + 1]
            /\ wreq' = [wreq EXCEPT ![r].pc = "done", ![r].wrote = TRUE,
                                    ![r].resp = [NoResponse EXCEPT !.status = 201]]
    /\ UNCHANGED <<users, CFG, HAS_PASSWORD_HASH_COLUMN, started, salts, clock, login, req>>
    /\ UNCHANGED <<dash, call>>
    /\ UNCHANGED sideVars

\* the handler of DELETE /products/:id (id 0: a parameter that is no
\* positive number; fails: the store refuses the statement)
DeleteProduct(r, id, fails) ==
    /\ wreq[r].pc = "handler"
    /\ wreq[r].route = "DELETE /products/:id"
    /\ LET found == \E i \in DOMAIN store.products : store.products[i].id_product = id
       IN  IF id = 0
           THEN /\ wreq' = [wreq EXCEPT ![r].pc = "done",
                                        ![r].resp = sendError(400, "Invalid id")]
                /\ UNCHANGED store
           ELSE IF fails
           THEN /\ wreq' = [wreq EXCEPT ![r].pc = "done",
                                        ![r].resp = sendError(409, "Cannot delete product (in use)")]
                /\ UNCHANGED store
           ELSE IF ~found
           THEN /\ wreq' = [wreq EXCEPT ![r].pc = "done",
                                        ![r].resp = sendError(404, "Not found")]
                /\ UNCHANGED store
           ELSE /\ store' = [store EXCEPT
                       !.products = SelectSeq(@, LAMBDA row : row.id_product # id)]
                /\ wreq' = [wreq EXCEPT ![r].pc = "done", ![r].wrote = TRUE,
                                        ![r].resp = [NoResponse EXCEPT !.status = 200]]
    /\ UNCHANGED <<users, CFG, HAS_PASSWORD_HASH_COLUMN, started, salts, clock, login, req>>
    /\ UNCHANGED <<dash, call>>
    /\ UNCHANGED sideVars

\* requests to the mutating endpoints under every role configuration
InitWrite ==
    /\ CFG \in [migratePlaintextPasswords : {FALSE},
                 migratePlaintextPasswordsOverwrite : {FALSE},
                 jwtSecret : {"secret"},
                 enforceRoles : BOOLEAN,
                 writeRoles : {DefaultWriteRoles, << <<W("admin")>> >>}]
    /\ HAS_PASSWORD_HASH_COLUMN = FALSE
    /\ users \in [UserIds ->
                    [present : {TRUE}, username : {UsernameOf(u) : u \in UserIds},
                     password : {Plain("p1")}, password_hash : {EmptyStr},
                     roles : RoleValues, last_login : {0}, is_active : {0, 1}]]
    /\ started = 0
    /\ salts = 0
    /\ clock = 0
    /\ login = [l \in LoginSlots |-> IdleLogin]
    /\ req = [r \in ReqSlots |-> IdleReq]
    /\ wreq = [r \in WriteSlots |-> IdleWrite]
    /\ store = EmptyStore
    /\ dash = IdleDash
    /\ call = NoCall
    /\ pool = IdlePool
    /\ oreq = IdleOffer
    /\ widget = IdleWidget

WriteNext ==
    \/ \E r \in WriteSlots, h \in WriteHeaders, route \in Routes : WriteStart(r, h, route)
    \/ \E r \in WriteSlots, continues \in BOOLEAN : WriteGate(r, continues)
    \/ \E r \in WriteSlots, b \in ProductBodies : PostProduct(r, b)
    \/ \E r \in WriteSlots, id \in 0..MaxProducts, fails \in BOOLEAN : DeleteProduct(r, id, fails)

SpecWrite == InitWrite /\ [][WriteNext]_vars

\* the lowercased names parseRoles reads from the roles of a user
RoleSet(user) == {toLowerCase(name) : name \in Range(parseRoles(user.roles).roles)}

\* C11 (the gate): a request of an authenticated user is answered 403 exactly
\* when role enforcement is on and none of the user's lowercased roles is in
\* the write-role allow-list (so never when enforcement is off); a request
\* that does not authenticate is answered 401; a request answered 401 or 403
\* has written nothing.
C11_Gate ==
    \A r \in WriteSlots :
        /\ wreq[r].cagUser # NoUser =>
              (wreq[r].resp.status = 403
                 <=> (CFG.enforceRoles /\ RoleSet(wreq[r].cagUser) \cap Range(CFG.writeRoles) = {}))
        /\ (wreq[r].pc = "done" /\ wreq[r].cagUser = NoUser) => wreq[r].resp.status = 401
        /\ wreq[r].resp.status \in {401, 403} => ~wreq[r].wrote

\* C11 (the rows): the products table changes only in the handler step of a
\* request that passed both gates, which is then answered neither 401 nor 403.
C11_Rows ==
    store' # store =>
        \E r \in WriteSlots :
            /\ wreq[r].pc = "handler"
            /\ wreq[r].cagUser # NoUser
            /\ (CFG.enforceRoles =>
                   RoleSet(wreq[r].cagUser) \cap Range(CFG.writeRoles) # {})
            /\ wreq'[r].resp.status \notin {401, 403}

\* C11: on the mutating endpoints 403 is sent exactly to authenticated users
\* without a write role under enforcement, 401 to everyone unauthenticated,
\* and no row is written by a request answered 401 or 403.
C11_WriteGate == []C11_Gate /\ [][C11_Rows]_vars

\* C11 witness: under enforcement a request of an authenticated user whose
\* roles parse to names outside the allow-list was answered 403, and the
\* products table is as it was.
C11_Witness ==
    /\ CFG.enforceRoles
    /\ store = EmptyStore
    /\ \E r \in WriteSlots :
          /\ wreq[r].pc = "done"
          /\ wreq[r].resp.status = 403
          /\ wreq[r].cagUser # NoUser
          /\ RoleSet(wreq[r].cagUser) # {}

-----------------------------------------------------------------------------
(* Helper calls: parseRoles, rangeToSql and clampInt applied to one        *)
(* argument drawn from a bounded set, with the server otherwise at rest.   *)

DefaultCFG ==
    [migratePlaintextPasswords |-> FALSE, migratePlaintextPasswordsOverwrite |-> FALSE,
     jwtSecret |-> "secret", enforceRoles |-> TRUE, writeRoles |-> DefaultWriteRoles]

\* no request in flight, one active user
AtRest ==
    /\ CFG = DefaultCFG
    /\ HAS_PASSWORD_HASH_COLUMN = FALSE
    /\ users = [u \in UserIds |->
                  [present |-> TRUE, username |-> UsernameOf(u), password |-> Plain("p1"),
                   password_hash |-> EmptyStr, roles |-> RawString(<<W("admin")>>),
                   last_login |-> 0, is_active |-> 1]]
    /\ started = 0
    /\ salts = 0
    /\ clock = 0
    /\ login = [l \in LoginSlots |-> IdleLogin]
    /\ req = [r \in ReqSlots |-> IdleReq]
    /\ wreq = [r \in WriteSlots |-> IdleWrite]
    /\ pool = IdlePool
    /\ oreq = IdleOffer
    /\ widget = IdleWidget

\* units of a roles string
MaxRoleLen == 4

RoleUnits ==
    {P("["), P("]"), P("{"), P("}"), P(","), P(":"), P(" "),
     Q("admin"), W("admin"), W("true")}

\* every string of at most MaxRoleLen units, the encodings the documentation
\* names, and the values that are no string
RoleInputs ==
    {RawString(s) : s \in UNION {[1..n -> RoleUnits] : n \in 0..MaxRoleLen}}
    \cup {RawString(<<W("admin"), P(","), W("manager")>>),
          RawString(<<P("{"), Q("admin"), P(":"), W("true"), P("}")>>),
          RawString(<<P("["), Q("admin"), P(","), Q("manager"), P("]")>>),
          RawNull, RawNumber(5), RawObject(<<>>), RawObject(<< <<W("admin")>> >>),
          RawList(<<>>), RawList(<< <<W("admin")>>, <<W("manager")>> >>)}

InitRoles ==
    /\ AtRest
    /\ store = EmptyStore
    /\ dash = IdleDash
    /\ call \in {[fn |-> "parseRoles", done |-> FALSE, arg |-> raw,
                  ret |-> [threw |-> FALSE, roles |-> <<>>]] : raw \in RoleInputs}

CallParseRoles ==
    /\ call.fn = "parseRoles"
    /\ ~call.done
    /\ call' = [call EXCEPT !.done = TRUE, !.ret = parseRoles(call.arg)]
    /\ UNCHANGED <<users, CFG, HAS_PASSWORD_HASH_COLUMN, started, salts, clock, login, req>>
    /\ UNCHANGED <<wreq, store, dash>>
    /\ UNCHANGED sideVars

RolesNext == CallParseRoles

SpecRoles == InitRoles /\ [][RolesNext]_vars

\* a string of role names separated by commas and white space, with at
\* least one name
TokenList(s) ==
    /\ \E i \in DOMAIN s : s[i].k = "w"
    /\ \A i \in DOMAIN s : s[i].k = "w" \/ s[i] \in {P(","), P(" ")}

\* raw is one of the role encodings: a list, an object, a string holding a
\* JSON list or object, or a string of separated names
RecognisedEncoding(raw) ==
    \/ raw.t \in {"list", "object"}
    \/ /\ raw.t = "string"
       /\ \/ JSONparse(trim(raw.s)).t \in {"array", "object"}
          \/ TokenList(raw.s)

\* parseRoles returns and does not throw, whatever the value
C12_NeverThrows == call.done => ~call.ret.threw

\* C12: parseRoles never throws, and every value that is none of the role
\* encodings yields the empty list of roles.
C12_UnparseableIsEmpty ==
    call.done =>
        /\ ~call.ret.threw
        /\ ~RecognisedEncoding(call.arg) => call.ret.roles = <<>>

-----------------------------------------------------------------------------
(* Dates.  A date or a timestamp is a string, kept as its sequence of      *)
(* characters; a query parameter is such a string or is absent.            *)

Digits == <<"0", "1", "2", "3", "4", "5", "6", "7", "8", "9">>

IsDigit(c) == \E i \in DOMAIN Digits : Digits[i] = c

DigitValue(c) == (CHOOSE i \in DOMAIN Digits : Digits[i] = c) - 1

\* Number(s) of a run of digits
RECURSIVE NumberOfDigits(_)
NumberOfDigits(s) ==
    IF s = <<>> THEN 0
    ELSE 10 * NumberOfDigits(SubSeq(s, 1, Len(s) - 1)) + DigitValue(s[Len(s)])

\* String(n) of a natural number
RECURSIVE StringOfNat(_)
StringOfNat(n) ==
    IF n < 10 THEN <<Digits[n + 1]>>
    ELSE StringOfNat(n \div 10) \o <<Digits[(n % 10) + 1]>>

\* s.padStart(2, "0")
padStart2(s) == IF Len(s) < 2 THEN <<"0">> \o s ELSE s

\* isISODate(s): typeof s === "string" && /^\d{4}-\d{2}-\d{2}$/.test(s)
isISODate(s) ==
    /\ s.isString
    /\ Len(s.text) = 10
    /\ \A i \in {1, 2, 3, 4, 6, 7, 9, 10} : IsDigit(s.text[i])
    /\ s.text[5] = "-"
    /\ s.text[8] = "-"

isLeapYear(y) == (y % 4 = 0 /\ y % 100 # 0) \/ y % 400 = 0

daysInMonth(y, m) ==
    IF m = 2 THEN (IF isLeapYear(y) THEN 29 ELSE 28)
    ELSE IF m \in {4, 6, 9, 11} THEN 30
    ELSE 31

\* the date a Date object holds for year y, month m (from 1) and day d >= 1
\* that may lie past the end of the year or of the month
RECURSIVE normalizeDate(_, _, _)
normalizeDate(y, m, d) ==
    IF m > 12 THEN normalizeDate(y + 1, m - 12, d)
    ELSE IF d > daysInMonth(y, m) THEN normalizeDate(y, m + 1, d - daysInMonth(y, m))
    ELSE [y |-> y, m |-> m, d |-> d]

\* Date.UTC(y, m - 1, d): a year from 0 to 99 stands for 1900 + y
DateUTC(y, m, d) == normalizeDate(IF y <= 99 THEN 1900 + y ELSE y, m, d)

JsNull == [isNull |-> TRUE, text |-> <<>>]
JsString(t) == [isNull |-> FALSE, text |-> t]

\* `${v}` of a template literal
Interpolate(v) == IF v.isNull THEN <<"n", "u", "l", "l">> ELSE v.text

\* addDaysIso(iso, deltaDays) for iso of the form isISODate accepts and
\* deltaDays >= 0
addDaysIso(iso, deltaDays) ==
    LET y == NumberOfDigits(SubSeq(iso, 1, 4))
        m == NumberOfDigits(SubSeq(iso, 6, 7))
        d == NumberOfDigits(SubSeq(iso, 9, 10))
    IN  IF y = 0 \/ m = 0 \/ d = 0 THEN JsNull
        ELSE LET dt == DateUTC(y, m, d)
                 set == normalizeDate(dt.y, dt.m, dt.d + deltaDays)
             IN  JsString(StringOfNat(set.y) \o <<"-">> \o padStart2(StringOfNat(set.m))
                          \o <<"-">> \o padStart2(StringOfNat(set.d)))

Midnight == <<" ", "0", "0", ":", "0", "0", ":", "0", "0">>

NoRange == [ok |-> FALSE, from |-> <<>>, toExcl |-> <<>>]

\* rangeToSql(fromIso, toIso): {from, toExcl}, or null (ok = FALSE)
rangeToSql(fromIso, toIso) ==
    IF ~isISODate(fromIso) \/ ~isISODate(toIso) THEN NoRange
    ELSE [ok |-> TRUE, from |-> fromIso.text \o Midnight,
          toExcl |-> Interpolate(addDaysIso(toIso.text, 1)) \o Midnight]

-----------------------------------------------------------------------------
(* The store's side of the reporting queries.                              *)
(* sales rows: id_sale, total_amount, last_updated, notes, username (of    *)
(* the joined users row); sales_details rows: sale_id, product_id,         *)
(* quantity, price, total_price; products rows: id_product, name,          *)
(* purchasePrice.  Amounts are whole numbers of the smallest unit.         *)

\* the characters of a timestamp in their collating order
CharOrder == <<" ", "-", "0", "1", "2", "3", "4", "5", "6", "7", "8", "9", ":">>

CharRank(c) == CHOOSE i \in DOMAIN CharOrder : CharOrder[i] = c

\* a < b for two timestamps written YYYY-MM-DD hh:mm:ss
RECURSIVE Before(_, _)
Before(a, b) ==
    IF b = <<>> THEN FALSE
    ELSE IF a = <<>> THEN TRUE
    ELSE IF Head(a) = Head(b) THEN Before(Tail(a), Tail(b))
    ELSE CharRank(Head(a)) < CharRank(Head(b))

\* s.last_updated >= ? AND s.last_updated < ?
InRange(sale, r) == ~Before(sale.last_updated, r.from) /\ Before(sale.last_updated, r.toExcl)

\* DATE(ts)
DATE(ts) == SubSeq(ts, 1, 10)

\* COALESCE(a, b), a * b and a - b over values that may be NULL
COALESCE(a, b) == IF a.null THEN b ELSE a
Times(a, b) == IF a.null \/ b.null THEN Null ELSE Val(a.v * b.v)
Minus(a, b) == IF a.null \/ b.null THEN Null ELSE Val(a.v - b.v)

\* Number(x) of a column value, NULL giving 0
OrZero(value) == IF value.null THEN 0 ELSE value.v

RECURSIVE AddAll(_)
AddAll(xs) == IF xs = <<>> THEN 0 ELSE Head(xs).v + AddAll(Tail(xs))

\* SUM(xs): NULL values are skipped, and the sum of no value is NULL
SUM(xs) ==
    LET given == SelectSeq(xs, LAMBDA x : ~x.null)
    IN  IF given = <<>> THEN Null ELSE Val(AddAll(given))

SalesIn(r) == SelectSeq(store.sales, LAMBDA sale : InRange(sale, r))

\* sales_details sd JOIN sales s ON s.id_sale = sd.sale_id WHERE s in range
DetailsIn(r) ==
    SelectSeq(store.sales_details,
              LAMBDA sd : \E i \in DOMAIN store.sales :
                              /\ store.sales[i].id_sale = sd.sale_id
                              /\ InRange(store.sales[i], r))

\* LEFT JOIN products p ON p.id_product = sd.product_id: the product's
\* columns, all NULL where no row matches
ProductOf(sd) ==
    IF \E i \in DOMAIN store.products : store.products[i].id_product = sd.product_id
    THEN LET p == store.products[CHOOSE i \in DOMAIN store.products :
                                     store.products[i].id_product = sd.product_id]
         IN  [id_product |-> Val(p.id_product), name |-> JsString(p.name),
              purchasePrice |-> p.purchasePrice]
    ELSE [id_product |-> Null, name |-> JsNull, purchasePrice |-> Null]

\* COALESCE(sd.total_price, sd.price * sd.quantity)
LineTotal(sd) == COALESCE(sd.total_price, Times(sd.price, sd.quantity))

\* the term the profit query sums, with the purchase price taken as given
ProfitTerm_NoCoalesce(sd) ==
    Minus(LineTotal(sd), Times(ProductOf(sd).purchasePrice, sd.quantity))

\* the term the profit query sums
ProfitTerm(sd) ==
    Minus(LineTotal(sd), Times(COALESCE(ProductOf(sd).purchasePrice, Val(0)), sd.quantity))

\* query 1: revenue and salesCount
KpiQuery(r) ==
    LET rows == SalesIn(r)
    IN  [revenue |-> COALESCE(SUM([i \in DOMAIN rows |-> rows[i].total_amount]), Val(0)).v,
         salesCount |-> Len(rows)]

\* query 2: profit
ProfitQuery(r) ==
    LET rows == DetailsIn(r)
    IN  COALESCE(SUM([i \in DOMAIN rows |-> ProfitTerm(rows[i])]), Val(0)).v

\* the timestamps or dates of S in descending order
RECURSIVE Descending(_)
Descending(S) ==
    IF S = {} THEN <<>>
    ELSE LET last == CHOOSE x \in S : \A y \in S : ~Before(x, y)
         IN  <<last>> \o Descending(S \ {last})

\* the timestamps or dates of S in ascending order
RECURSIVE Ascending(_)
Ascending(S) ==
    IF S = {} THEN <<>>
    ELSE LET first == CHOOSE x \in S : \A y \in S : ~Before(y, x)
         IN  <<first>> \o Ascending(S \ {first})

\* query 3: one row per DATE(s.last_updated), in ascending order
SeriesQuery(r) ==
    LET rows == SalesIn(r)
        days == Ascending({DATE(rows[i].last_updated) : i \in DOMAIN rows})
    IN  [k \in DOMAIN days |->
            LET ofDay == SelectSeq(rows, LAMBDA sale : DATE(sale.last_updated) = days[k])
            IN  [date |-> days[k],
                 revenue |-> COALESCE(SUM([i \in DOMAIN ofDay |-> ofDay[i].total_amount]),
                                      Val(0)).v]]

\* LIMIT 10 of the two ranking queries
TopLimit == 10

\* keys in ascending order of revenue
RECURSIVE ByRevenue_Ascending(_, _, _)
ByRevenue_Ascending(keys, revenue, lowFirst) ==
    IF keys = {} THEN <<>>
    ELSE LET first == CHOOSE x \in keys : \A y \in keys :
                         \/ revenue[x] < revenue[y]
                         \/ /\ revenue[x] = revenue[y]
                            /\ IF lowFirst THEN x <= y ELSE x >= y
         IN  <<first>> \o ByRevenue_Ascending(keys \ {first}, revenue, lowFirst)

\* keys in the order ORDER BY revenue DESC returns them; rows of equal
\* revenue come in an order the store chooses (lowFirst)
RECURSIVE ByRevenue(_, _, _)
ByRevenue(keys, revenue, lowFirst) ==
    IF keys = {} THEN <<>>
    ELSE LET first == CHOOSE x \in keys : \A y \in keys :
                         \/ revenue[x] > revenue[y]
                         \/ /\ revenue[x] = revenue[y]
                            /\ IF lowFirst THEN x <= y ELSE x >= y
         IN  <<first>> \o ByRevenue(keys \ {first}, revenue, lowFirst)

Limit(rows, n) == SubSeq(rows, 1, IF Len(rows) < n THEN Len(rows) ELSE n)

\* CONCAT('Produit #', sd.product_id)
Placeholder(id) == <<"P", "r", "o", "d", "u", "i", "t", " ", "#">> \o StringOfNat(id)

\* query 4: one row per sd.product_id (p.id_product and p.name follow from it)
TopProductsQuery(r, lowFirst) ==
    LET rows == DetailsIn(r)
        refs == {rows[i].product_id : i \in DOMAIN rows}
        of(ref) == SelectSeq(rows, LAMBDA sd : sd.product_id = ref)
        revenue == [ref \in refs |->
                      COALESCE(SUM([i \in DOMAIN of(ref) |-> LineTotal(of(ref)[i])]), Val(0)).v]
        order == Limit(ByRevenue(refs, revenue, lowFirst), TopLimit)
    IN  [k \in DOMAIN order |->
            LET p == ProductOf([product_id |-> order[k]])
            IN  [id |-> p.id_product,
                 name |-> COALESCE([null |-> p.name.isNull, v |-> p.name.text],
                                   Val(Placeholder(order[k]))).v,
                 qty |-> COALESCE(SUM([i \in DOMAIN of(order[k]) |-> of(order[k])[i].quantity]),
                                  Val(0)).v,
                 revenue |-> revenue[order[k]]]]

\* the quantities or line totals of the details sold under an offer: one
\* value per pair of a detail row and a product_offers_products row
RECURSIVE OfferLines(_, _, _, _)
OfferLines(links, rows, offer, column) ==
    IF links = <<>> THEN <<>>
    ELSE LET sold == SelectSeq(rows, LAMBDA sd : sd.product_id = Head(links).product_id)
             here == IF Head(links).offer_id # offer THEN <<>>
                     ELSE [i \in DOMAIN sold |->
                             IF column = "quantity" THEN sold[i].quantity
                             ELSE LineTotal(sold[i])]
         IN  here \o OfferLines(Tail(links), rows, offer, column)

\* query 5: one row per offer that has a sold product
TopOffersQuery(r, lowFirst) ==
    LET rows == DetailsIn(r)
        links == store.product_offers_products
        offers == {store.product_offers[i].id_offer : i \in DOMAIN store.product_offers}
        sold == {o \in offers : OfferLines(links, rows, o, "quantity") # <<>>}
        revenue == [o \in sold |-> COALESCE(SUM(OfferLines(links, rows, o, "revenue")), Val(0)).v]
        order == Limit(ByRevenue(sold, revenue, lowFirst), TopLimit)
    IN  [k \in DOMAIN order |->
            [id |-> order[k],
             name |-> (CHOOSE row \in Range(store.product_offers) : row.id_offer = order[k]).name,
             qty |-> COALESCE(SUM(OfferLines(links, rows, order[k], "quantity")), Val(0)).v,
             revenue |-> revenue[order[k]]]]

-----------------------------------------------------------------------------
(* GET /dashboard/summary, from the handler on (requireAuth has passed).   *)

\* a JavaScript number: a / b, with 0 / 0 = NaN and a / 0 = Infinity
JsNumber(n) == [kind |-> "finite", num |-> n, den |-> 1]
JsQuotient(a, b) ==
    IF b = 0 THEN [kind |-> IF a = 0 THEN "NaN" ELSE "Infinity", num |-> 0, den |-> 1]
    ELSE [kind |-> "finite", num |-> a, den |-> b]

\* avgTicket without the guard on salesCount
avgTicket_Unguarded(kpis) == JsQuotient(kpis.revenue, kpis.salesCount)

\* kpis.salesCount ? Number(kpis.revenue) / Number(kpis.salesCount) : 0
avgTicket(kpis) ==
    IF kpis.salesCount # 0 THEN JsQuotient(kpis.revenue, kpis.salesCount) ELSE JsNumber(0)

\* String(x.date) of the Date object the driver builds for a DATE column:
\* Date.prototype.toString(), which is not the YYYY-MM-DD text
DateToString(date) == [format |-> "Date.prototype.toString", of |-> date]

\* a request as the handler receives it
DashRequest(route, query) ==
    [pc |-> "start", route |-> route, query |-> query, r |-> NoRange, queries |-> 0,
     kpis |-> [revenue |-> 0, salesCount |-> 0], profit |-> 0, series |-> <<>>,
     topProducts |-> <<>>, q |-> <<>>, limit |-> 0, offset |-> 0, total |-> 0,
     snaps |-> {}, resp |-> NoResponse]

\* the handler up to its first await: rangeToSql, then 400 or the first query
SummaryRange ==
    /\ dash.pc = "start"
    /\ dash.route = "summary"
    /\ LET r == rangeToSql(dash.query.from, dash.query.to)
       IN  dash' = IF ~r.ok
                   THEN [dash EXCEPT !.pc = "done",
                                     !.resp = sendError(400, "Invalid from/to (expected YYYY-MM-DD)")]
                   ELSE [dash EXCEPT !.pc = "kpi", !.r = r]
    /\ UNCHANGED <<users, CFG, HAS_PASSWORD_HASH_COLUMN, started, salts, clock, login, req>>
    /\ UNCHANGED <<wreq, store, call>>
    /\ UNCHANGED sideVars

SummaryKpi ==
    /\ dash.pc = "kpi"
    /\ dash' = [dash EXCEPT !.pc = "profit", !.queries = @ + 1, !.kpis = KpiQuery(dash.r)]
    /\ UNCHANGED <<users, CFG, HAS_PASSWORD_HASH_COLUMN, started, salts, clock, login, req>>
    /\ UNCHANGED <<wreq, store, call>>
    /\ UNCHANGED sideVars

SummaryProfit ==
    /\ dash.pc = "profit"
    /\ dash' = [dash EXCEPT !.pc = "series", !.queries = @ + 1, !.profit = ProfitQuery(dash.r)]
    /\ UNCHANGED <<users, CFG, HAS_PASSWORD_HASH_COLUMN, started, salts, clock, login, req>>
    /\ UNCHANGED <<wreq, store, call>>
    /\ UNCHANGED sideVars

SummarySeries ==
    /\ dash.pc = "series"
    /\ dash' = [dash EXCEPT !.pc = "topProducts", !.queries = @ + 1,
                            !.series = SeriesQuery(dash.r)]
    /\ UNCHANGED <<users, CFG, HAS_PASSWORD_HASH_COLUMN, started, salts, clock, login, req>>
    /\ UNCHANGED <<wreq, store, call>>
    /\ UNCHANGED sideVars

SummaryTopProducts(lowFirst) ==
    /\ dash.pc = "topProducts"
    /\ dash' = [dash EXCEPT !.pc = "topOffers", !.queries = @ + 1,
                            !.topProducts = TopProductsQuery(dash.r, lowFirst)]
    /\ UNCHANGED <<users, CFG, HAS_PASSWORD_HASH_COLUMN, started, salts, clock, login, req>>
    /\ UNCHANGED <<wreq, store, call>>
    /\ UNCHANGED sideVars

\* the last query, and reply.send({kpis, series, topProducts, topOffers})
SummaryReply(lowFirst) ==
    /\ dash.pc = "topOffers"
    /\ dash' = [dash EXCEPT
           !.pc = "done", !.queries = @ + 1,
           !.resp = [status |-> 200,
                     kpis |-> [revenue |-> dash.kpis.revenue, profit |-> dash.profit,
                               salesCount |-> dash.kpis.salesCount,
                               avgTicket |-> avgTicket(dash.kpis)],
                     series |-> [i \in DOMAIN dash.series |->
                                   [date |-> DateToString(dash.series[i].date),
                                    revenue |-> dash.series[i].revenue]],
                     topProducts |-> dash.topProducts,
                     topOffers |-> TopOffersQuery(dash.r, lowFirst)]]
    /\ UNCHANGED <<users, CFG, HAS_PASSWORD_HASH_COLUMN, started, salts, clock, login, req>>
    /\ UNCHANGED <<wreq, store, call>>
    /\ UNCHANGED sideVars

-----------------------------------------------------------------------------
(* GET /sales, from the handler on: Number() and clampInt on the paging    *)
(* parameters, the count query, the page query.                            *)

\* a finite number is kept as its sign and the whole part of its magnitude,
\* which is all that Math.trunc reads; magnitudes from Huge on are kept as Huge
Huge == 100000000

NaN == [kind |-> "NaN", negative |-> FALSE, whole |-> 0]
Infinite(negative) == [kind |-> "Infinity", negative |-> negative, whole |-> 0]
Finite(negative, whole) == [kind |-> "finite", negative |-> negative, whole |-> whole]

\* the index of the first c in s, or 0
FirstIndex(s, c) ==
    IF \E i \in DOMAIN s : s[i] = c
    THEN CHOOSE i \in DOMAIN s : s[i] = c /\ \A j \in 1..(i - 1) : s[j] # c
    ELSE 0

AllDigits(s) == \A i \in DOMAIN s : IsDigit(s[i])

RECURSIVE StripZeros(_)
StripZeros(s) == IF s # <<>> /\ Head(s) = "0" THEN StripZeros(Tail(s)) ELSE s

InfinityText == <<"I", "n", "f", "i", "n", "i", "t", "y">>

\* the value of the decimal literal with digits all, of which the first
\* point are before the decimal point (point may be negative or past the end)
ScaledDecimal(negative, all, point) ==
    LET digits == StripZeros(all)
        order == point - (Len(all) - Len(digits))
    IN  IF digits = <<>> \/ order <= 0 THEN Finite(negative, 0)
        ELSE IF order >= 310 THEN Infinite(negative)
        ELSE IF order > 8 THEN Finite(negative, Huge)
        ELSE Finite(negative,
                    NumberOfDigits([i \in 1..order |->
                                      IF i <= Len(digits) THEN digits[i] ELSE "0"]))

\* Number(text) of an unsigned decimal literal: digits, an optional
\* fraction, an optional exponent
UnsignedNumber(negative, text) ==
    LET e == FirstIndex(text, "e")
        mantissa == IF e = 0 THEN text ELSE SubSeq(text, 1, e - 1)
        exponent == IF e = 0 THEN <<>> ELSE SubSeq(text, e + 1, Len(text))
        expSigned == exponent # <<>> /\ Head(exponent) \in {"+", "-"}
        expDigits == IF expSigned THEN Tail(exponent) ELSE exponent
        dot == FirstIndex(mantissa, ".")
        whole == IF dot = 0 THEN mantissa ELSE SubSeq(mantissa, 1, dot - 1)
        fraction == IF dot = 0 THEN <<>> ELSE SubSeq(mantissa, dot + 1, Len(mantissa))
    IN  IF \/ ~AllDigits(whole) \/ ~AllDigits(fraction) \/ whole \o fraction = <<>>
           \/ ~AllDigits(expDigits) \/ (e # 0 /\ expDigits = <<>>)
           \/ Len(expDigits) > 4
        THEN (IF Len(expDigits) > 4 /\ AllDigits(expDigits) /\ AllDigits(whole)
                 /\ AllDigits(fraction) /\ whole \o fraction # <<>>
              THEN (IF (expSigned /\ Head(exponent) = "-") \/ StripZeros(whole \o fraction) = <<>>
                    THEN Finite(negative, 0) ELSE Infinite(negative))
              ELSE NaN)
        ELSE ScaledDecimal(negative, whole \o fraction,
                           Len(whole) + (IF expSigned /\ Head(exponent) = "-"
                                         THEN 0 - NumberOfDigits(expDigits)
                                         ELSE NumberOfDigits(expDigits)))

\* Number(n) of a query parameter: undefined, or a string
Number(n) ==
    IF ~n.isString THEN NaN
    ELSE LET text == Trim(n.text)
             signed == text # <<>> /\ Head(text) \in {"+", "-"}
             negative == signed /\ Head(text) = "-"
             rest == IF signed THEN Tail(text) ELSE text
         IN  IF text = <<>> THEN Finite(FALSE, 0)
             ELSE IF rest = InfinityText THEN Infinite(negative)
             ELSE UnsignedNumber(negative, rest)

\* Math.trunc(x) of a finite number
trunc(x) == IF x.negative THEN 0 - x.whole ELSE x.whole

Min(a, b) == IF a < b THEN a ELSE b
Max(a, b) == IF a > b THEN a ELSE b

\* clampInt without the upper bound
clampInt_NoMax(n, min, max, fallback) ==
    LET x == Number(n)
    IN  IF x.kind # "finite" THEN fallback ELSE Max(min, trunc(x))

\* clampInt(n, min, max, fallback)
clampInt(n, min, max, fallback) ==
    LET x == Number(n)
    IN  IF x.kind # "finite" THEN fallback ELSE Max(min, Min(max, trunc(x)))

\* text LIKE '%q%' (on the letters of the model, all lower case)
Contains(text, q) ==
    \E i \in 0..(Len(text) - Len(q)) : SubSeq(text, i + 1, i + Len(q)) = q

\* ? = '' OR s.notes LIKE ? OR u.username LIKE ? OR s.id_sale = ?
Matches(sale, q) ==
    \/ q = <<>>
    \/ Contains(sale.notes, q)
    \/ ~sale.username.isNull /\ Contains(sale.username.text, q)
    \/ q # <<>> /\ AllDigits(q) /\ sale.id_sale = NumberOfDigits(q)

\* the rows of the sales table both queries of GET /sales select
Selected(sales, r, q) == SelectSeq(sales, LAMBDA sale : InRange(sale, r) /\ Matches(sale, q))

\* the count query
CountQuery(r, q) == Len(Selected(store.sales, r, q))

\* positions of rows in the order ORDER BY s.last_updated DESC returns
\* them; rows of equal timestamp come in an order the store chooses
RECURSIVE LatestFirst(_, _, _)
LatestFirst(rows, left, lowFirst) ==
    IF left = {} THEN <<>>
    ELSE LET first == CHOOSE x \in left : \A y \in left :
                         \/ Before(rows[y].last_updated, rows[x].last_updated)
                         \/ /\ rows[y].last_updated = rows[x].last_updated
                            /\ IF lowFirst THEN x <= y ELSE x >= y
         IN  <<first>> \o LatestFirst(rows, left \ {first}, lowFirst)

\* LIMIT limit OFFSET offset of the selected rows of a sales table
PageOf(sales, r, q, limit, offset, lowFirst) ==
    LET rows == Selected(sales, r, q)
        order == LatestFirst(rows, DOMAIN rows, lowFirst)
        page == SubSeq(order, offset + 1, Min(Len(order), offset + limit))
    IN  [k \in DOMAIN page |-> rows[page[k]]]

\* the page query: each row of the page with the summed quantity of its
\* line items
PageQuery(r, q, limit, offset, lowFirst) ==
    LET page == PageOf(store.sales, r, q, limit, offset, lowFirst)
    IN  [k \in DOMAIN page |->
            LET sale == page[k]
                lines == SelectSeq(store.sales_details, LAMBDA sd : sd.sale_id = sale.id_sale)
            IN  [id_sale |-> sale.id_sale, total_amount |-> sale.total_amount,
                 notes |-> sale.notes, username |-> sale.username,
                 last_updated |-> sale.last_updated,
                 items_count |-> COALESCE(SUM([i \in DOMAIN lines |-> lines[i].quantity]),
                                          Val(0)).v]]

\* the handler up to its first await: rangeToSql, q, limit, offset
SalesRange ==
    /\ dash.pc = "start"
    /\ dash.route = "sales"
    /\ LET r == rangeToSql(dash.query.from, dash.query.to)
           page == dash.query.page
       IN  dash' = IF ~r.ok
                   THEN [dash EXCEPT !.pc = "done",
                                     !.resp = sendError(400, "Invalid from/to (expected YYYY-MM-DD)")]
                   ELSE [dash EXCEPT !.pc = "count", !.r = r, !.snaps = {store.sales},
                                     !.q = IF page.q.isString THEN Trim(page.q.text) ELSE <<>>,
                                     !.limit = clampInt(page.limit, 1, 100, 20),
                                     !.offset = clampInt(page.offset, 0, 1000000, 0)]
    /\ UNCHANGED <<users, CFG, HAS_PASSWORD_HASH_COLUMN, started, salts, clock, login, req>>
    /\ UNCHANGED <<wreq, store, call>>
    /\ UNCHANGED sideVars

SalesCount ==
    /\ dash.pc = "count"
    /\ dash' = [dash EXCEPT !.pc = "page", !.queries = @ + 1,
                            !.total = CountQuery(dash.r, dash.q)]
    /\ UNCHANGED <<users, CFG, HAS_PASSWORD_HASH_COLUMN, started, salts, clock, login, req>>
    /\ UNCHANGED <<wreq, store, call>>
    /\ UNCHANGED sideVars

\* the page query, and reply.send({total, items})
SalesPage(lowFirst) ==
    /\ dash.pc = "page"
    /\ LET rows == PageQuery(dash.r, dash.q, dash.limit, dash.offset, lowFirst)
       IN  dash' = [dash EXCEPT
               !.pc = "done", !.queries = @ + 1,
               !.resp = [status |-> 200, total |-> dash.total,
                         items |-> [k \in DOMAIN rows |->
                                      [rows[k] EXCEPT
                                         !.total_amount = OrZero(@),
                                         !.username = IF @.isNull THEN <<>> ELSE @.text]]]]
    /\ UNCHANGED <<users, CFG, HAS_PASSWORD_HASH_COLUMN, started, salts, clock, login, req>>
    /\ UNCHANGED <<wreq, store, call>>
    /\ UNCHANGED sideVars

-----------------------------------------------------------------------------
(* Date ranges: a reporting request with every from/to of the model, over  *)
(* empty tables.                                                           *)

\* the months and days a parameter of the YYYY-MM-DD form can name
MaxMonth == 13
MaxDay == 32

DateYears == {0, 99, 100, 2023, 2024, 9999}

\* n written with at least four digits
RECURSIVE padStart4(_)
padStart4(s) == IF Len(s) < 4 THEN padStart4(<<"0">> \o s) ELSE s

IsoText(y, m, d) ==
    padStart4(StringOfNat(y)) \o <<"-">> \o padStart2(StringOfNat(m))
    \o <<"-">> \o padStart2(StringOfNat(d))

Absent == NotAString(<<>>)

\* parameters that are not of the YYYY-MM-DD form: absent, empty,
\* 01/01/2024, 2024-1-1, 2024-01-011
OtherFormats ==
    {Absent, Str(<<>>),
     Str(<<"0", "1", "/", "0", "1", "/", "2", "0", "2", "4">>),
     Str(<<"2", "0", "2", "4", "-", "1", "-", "1">>),
     Str(IsoText(2024, 1, 1) \o <<"1">>)}

ToInputs ==
    {Str(IsoText(y, m, d)) : y \in DateYears, m \in 0..MaxMonth, d \in 0..MaxDay}
    \cup OtherFormats

FromInputs == {Str(IsoText(2024, 1, 1)), Str(IsoText(2024, 13, 1))} \cup OtherFormats

NoPaging == [q |-> Absent, limit |-> Absent, offset |-> Absent]

InitRange ==
    /\ AtRest
    /\ store = EmptyStore
    /\ call = NoCall
    /\ dash \in {DashRequest(route, [from |-> f, to |-> t, page |-> NoPaging]) :
                   route \in {"summary", "sales"}, f \in FromInputs, t \in ToInputs}

SummaryNext ==
    \/ SummaryRange
    \/ SummaryKpi
    \/ SummaryProfit
    \/ SummarySeries
    \/ \E lowFirst \in BOOLEAN : SummaryTopProducts(lowFirst)
    \/ \E lowFirst \in BOOLEAN : SummaryReply(lowFirst)

SalesNext ==
    \/ SalesRange
    \/ SalesCount
    \/ \E lowFirst \in BOOLEAN : SalesPage(lowFirst)

RangeNext == SummaryNext \/ SalesNext

SpecRange == InitRange /\ [][RangeNext]_vars

YearOf(text) == NumberOfDigits(SubSeq(text, 1, 4))
MonthOf(text) == NumberOfDigits(SubSeq(text, 6, 7))
DayOf(text) == NumberOfDigits(SubSeq(text, 9, 10))

\* the parameter is a calendar date written YYYY-MM-DD
IsCalendarDate(s) ==
    /\ isISODate(s)
    /\ MonthOf(s.text) \in 1..12
    /\ DayOf(s.text) \in 1..daysInMonth(YearOf(s.text), MonthOf(s.text))

\* the day after a calendar date, written YYYY-MM-DD
NextDay(text) ==
    LET y == YearOf(text)
        m == MonthOf(text)
        d == DayOf(text)
    IN  IF d < daysInMonth(y, m) THEN IsoText(y, m, d + 1)
        ELSE IF m < 12 THEN IsoText(y, m + 1, 1)
        ELSE IsoText(y + 1, 1, 1)

\* ts is midnight of a calendar date, written YYYY-MM-DD 00:00:00
MidnightTimestamp(ts) ==
    /\ Len(ts) = 19
    /\ IsCalendarDate(Str(SubSeq(ts, 1, 10)))
    /\ SubSeq(ts, 11, 19) = Midnight

\* C13: for every from/to that rangeToSql accepts, the start bound is
\* midnight of from, the exclusive end bound is a well-formed timestamp, and
\* it is midnight of the calendar day after to.
C13_EndIsNextMidnight ==
    dash.r.ok =>
        /\ dash.r.from = dash.query.from.text \o Midnight
        /\ MidnightTimestamp(dash.r.toExcl)
        /\ IsCalendarDate(dash.query.to) =>
              dash.r.toExcl = NextDay(dash.query.to.text) \o Midnight

\* the same for calendar dates of the years 1000 to 9998
C13_HoldsForFourDigitYears ==
    (/\ dash.r.ok
     /\ IsCalendarDate(dash.query.to)
     /\ YearOf(dash.query.to.text) \in 1000..9998) =>
        /\ MidnightTimestamp(dash.r.toExcl)
        /\ dash.r.toExcl = NextDay(dash.query.to.text) \o Midnight

\* C14: a request whose from or to is absent or is no calendar date of the
\* YYYY-MM-DD form is answered 400 and runs no aggregate query.
C14_NonDatesAnswered400 ==
    (/\ dash.pc # "start"
     /\ ~(IsCalendarDate(dash.query.from) /\ IsCalendarDate(dash.query.to))) =>
        /\ dash.resp.status = 400
        /\ dash.queries = 0

\* the same for parameters that are absent or not of the digit pattern
C14_OtherFormatsAnswered400 ==
    (/\ dash.pc # "start"
     /\ (dash.query.from \in OtherFormats \/ dash.query.to \in OtherFormats)) =>
        /\ dash.resp.status = 400
        /\ dash.queries = 0

-----------------------------------------------------------------------------
(* Aggregation: GET /dashboard/summary over tables of sales, line items    *)
(* and products, for ranges around the leap day of 2024.                   *)

\* rows of the sales table, of the sales_details table, and distinct
\* products sold in one range
MaxSales == 3
MaxDetails == 2
MaxRefs == 11

Stamp(y, m, d, time) == IsoText(y, m, d) \o <<" ">> \o time

LastSecond == <<"2", "3", ":", "5", "9", ":", "5", "9">>
FirstSecond == <<"0", "0", ":", "0", "0", ":", "0", "0">>
Noon == <<"1", "2", ":", "0", "0", ":", "0", "0">>

Stamps ==
    {Stamp(2024, 2, 28, LastSecond), Stamp(2024, 2, 29, FirstSecond),
     Stamp(2024, 2, 29, Noon), Stamp(2024, 3, 1, FirstSecond)}

\* the leap day; the three days; a range whose end lies before its start
SummaryQueries ==
    {[from |-> Str(IsoText(2024, 2, 29)), to |-> Str(IsoText(2024, 2, 29)), page |-> NoPaging],
     [from |-> Str(IsoText(2024, 2, 28)), to |-> Str(IsoText(2024, 3, 1)), page |-> NoPaging],
     [from |-> Str(IsoText(2024, 3, 1)), to |-> Str(IsoText(2024, 2, 28)), page |-> NoPaging]}

NoNotes == <<>>

SaleRow(id, amount, stamp) ==
    [id_sale |-> id, total_amount |-> amount, last_updated |-> stamp,
     notes |-> NoNotes, username |-> JsNull]

\* tables of up to MaxSales sales without line items
SalesTables ==
    UNION {[1..n -> [total_amount : {Val(50), Val(100)}, last_updated : Stamps]] :
             n \in 0..MaxSales}

SalesStores ==
    {[EmptyStore EXCEPT
        !.sales = [i \in DOMAIN t |-> SaleRow(i, t[i].total_amount, t[i].last_updated)]] :
     t \in SalesTables}

\* sale 1 on the leap day, sale 2 the day before, sale 3 on the leap day
\* without amount and without line items; up to MaxDetails line items of sales 1 and 2 for
\* products 1 and 2, of which product 2 may have been deleted
ThreeSales ==
    <<SaleRow(1, Val(100), Stamp(2024, 2, 29, Noon)),
      SaleRow(2, Val(50), Stamp(2024, 2, 28, LastSecond)),
      SaleRow(3, Null, Stamp(2024, 2, 29, FirstSecond))>>

DetailsTables ==
    UNION {[1..n -> [sale_id : {1, 2}, product_id : {1, 2}, quantity : {Val(1), Val(2)},
                     price : {Val(10)}, total_price : {Null, Val(15)}]] :
             n \in 0..MaxDetails}

ProductTables ==
    {<<[id_product |-> 1, name |-> <<"n">>, purchasePrice |-> pp]>> \o rest :
       pp \in {Null, Val(4)},
       rest \in {<<>>, <<[id_product |-> 2, name |-> <<"m">>, purchasePrice |-> Val(7)]>>}}

DetailsStores ==
    {[EmptyStore EXCEPT !.sales = ThreeSales, !.sales_details = d, !.products = p] :
       d \in DetailsTables, p \in ProductTables}

\* n products sold once each in sale 1, at prices that repeat (step k);
\* the products with an even id have been deleted
ManyStores ==
    {[EmptyStore EXCEPT
        !.sales = ThreeSales,
        !.sales_details = [i \in 1..n |->
            [sale_id |-> 1, product_id |-> i, quantity |-> Val(1 + (i % 2)),
             price |-> Val(1 + ((i * k) % 5)), total_price |-> Null]],
        !.products = SelectSeq([i \in 1..n |-> [id_product |-> i, name |-> <<"n">>,
                                                 purchasePrice |-> Val(1)]],
                               LAMBDA p : p.id_product % 2 = 1)] :
     n \in 0..MaxRefs, k \in 1..3}

InitSummary ==
    /\ AtRest
    /\ call = NoCall
    /\ store \in SalesStores \cup DetailsStores \cup ManyStores
    /\ dash \in {DashRequest("summary", query) : query \in SummaryQueries}

SpecSummary == InitSummary /\ [][SummaryNext]_vars

\* the sum of f over the set S
RECURSIVE SumOver(_, _)
SumOver(f, S) ==
    IF S = {} THEN 0
    ELSE LET x == CHOOSE x \in S : TRUE
         IN  f[x] + SumOver(f, S \ {x})

\* the range [start, endExclusive) the request names
StartOf(query) == query.from.text \o Midnight
EndOf(query) == NextDay(query.to.text) \o Midnight

\* the sales of the table whose timestamp lies in the requested range
SalesOfRange ==
    LET start == StartOf(dash.query)
        end == EndOf(dash.query)
    IN  {i \in DOMAIN store.sales :
            /\ ~Before(store.sales[i].last_updated, start)
            /\ Before(store.sales[i].last_updated, end)}

AmountOf == [i \in DOMAIN store.sales |-> OrZero(store.sales[i].total_amount)]

Answered == dash.pc = "done" /\ dash.resp.status = 200

\* C15: revenue is the sum of total_amount over the sales of the range (0
\* when there is none), salesCount is their number, and avgTicket is
\* revenue / salesCount when salesCount > 0 and exactly 0 otherwise.
C15_Kpis ==
    Answered =>
        LET kpis == dash.resp.kpis
        IN  /\ kpis.revenue = SumOver(AmountOf, SalesOfRange)
            /\ kpis.salesCount = Cardinality(SalesOfRange)
            /\ kpis.salesCount > 0 =>
                  /\ kpis.avgTicket.kind = "finite"
                  /\ kpis.avgTicket.num * kpis.salesCount = kpis.revenue * kpis.avgTicket.den
            /\ kpis.salesCount = 0 => kpis.avgTicket = JsNumber(0)

\* C15 witness: sales of 100 and of 50 in the range: 150, 2, 75
C15_Witness ==
    /\ Answered
    /\ Cardinality(SalesOfRange) = 2
    /\ Cardinality(SalesOfRange) < Len(store.sales)
    /\ dash.resp.kpis.revenue = 150
    /\ dash.resp.kpis.avgTicket = [kind |-> "finite", num |-> 150, den |-> 2]

\* the line items whose sale lies in the requested range
DetailsOfRange ==
    LET sales == SalesOfRange
    IN  {i \in DOMAIN store.sales_details :
            \E j \in sales : store.sales[j].id_sale = store.sales_details[i].sale_id}

ProductExists(id) == \E k \in DOMAIN store.products : store.products[k].id_product = id

\* the purchase price of a product, 0 when there is no such product or no price
PurchasePriceOf(id) ==
    IF ProductExists(id)
    THEN OrZero((CHOOSE p \in Range(store.products) : p.id_product = id).purchasePrice)
    ELSE 0

\* total_price if present, else price * quantity
LineOf == [i \in DOMAIN store.sales_details |->
             LET sd == store.sales_details[i]
             IN  IF ~sd.total_price.null THEN sd.total_price.v ELSE sd.price.v * sd.quantity.v]

MarginOf == [i \in DOMAIN store.sales_details |->
               LET sd == store.sales_details[i]
               IN  LineOf[i] - PurchasePriceOf(sd.product_id) * sd.quantity.v]

\* C16: profit is the sum, over the line items of the sales of the range, of
\* line total minus purchase price times quantity, the purchase price being
\* 0 for a product that no longer exists; sales without line items and line
\* items of sales outside the range add nothing.
C16_Profit == Answered => dash.resp.kpis.profit = SumOver(MarginOf, DetailsOfRange)

\* C16 witness: an answer over a range that holds a line item of a deleted
\* product without total_price and a sale without line items, while another
\* line item belongs to a sale outside the range
C16_Witness ==
    /\ Answered
    /\ dash.resp.kpis.profit > 0
    /\ \E i \in DetailsOfRange :
          /\ ~ProductExists(store.sales_details[i].product_id)
          /\ store.sales_details[i].total_price.null
    /\ \E i \in DOMAIN store.sales_details : i \notin DetailsOfRange
    /\ \E j \in SalesOfRange :
          \A i \in DOMAIN store.sales_details :
              store.sales_details[i].sale_id # store.sales[j].id_sale

\* the calendar days that have a sale of the range
DaysOfRange == {DATE(store.sales[i].last_updated) : i \in SalesOfRange}

\* C17: the series has exactly one entry per calendar day with a sale of the
\* range and none for other days, each with the sum of that day's sales, in
\* strictly ascending order of day.
C17_Series ==
    Answered =>
        LET series == dash.resp.series
        IN  /\ Len(series) = Cardinality(DaysOfRange)
            /\ {series[k].date.of : k \in DOMAIN series} = DaysOfRange
            /\ \A k \in DOMAIN series :
                  series[k].revenue =
                      SumOver(AmountOf, {i \in SalesOfRange :
                                            DATE(store.sales[i].last_updated) = series[k].date.of})
            /\ \A k \in DOMAIN series :
                  k < Len(series) => Before(series[k].date.of, series[k + 1].date.of)

\* C17 witness: three sales of the range on the first and on the last of
\* three days: two entries, none for the day in between
C17_Witness ==
    /\ Answered
    /\ Cardinality(SalesOfRange) = 3
    /\ Len(dash.resp.series) = 2
    /\ dash.resp.series[1].date.of = IsoText(2024, 2, 28)
    /\ dash.resp.series[2].date.of = IsoText(2024, 3, 1)
    /\ dash.resp.series[1].revenue + dash.resp.series[2].revenue = dash.resp.kpis.revenue

\* the product references among the line items of the range
RefsOfRange == {store.sales_details[i].product_id : i \in DetailsOfRange}

QuantityOf == [i \in DOMAIN store.sales_details |-> OrZero(store.sales_details[i].quantity)]

\* the summed quantity and line totals of the range, per product reference
TotalsOfRange ==
    LET details == DetailsOfRange
        line == LineOf
        quantity == QuantityOf
    IN  [ref \in {store.sales_details[i].product_id : i \in details} |->
            LET items == {i \in details : store.sales_details[i].product_id = ref}
            IN  [qty |-> SumOver(quantity, items), revenue |-> SumOver(line, items)]]

\* entry is the entry of topProducts for product reference ref
EntryOf(entry, ref, totals) ==
    /\ entry.qty = totals[ref].qty
    /\ entry.revenue = totals[ref].revenue
    /\ IF ProductExists(ref)
       THEN entry.id = Val(ref)
       ELSE entry.id = Null /\ entry.name = Placeholder(ref)

\* C18: topProducts has at most 10 entries, one per distinct product
\* reference of the range (all of them when there are at most 10, else 10 of
\* highest revenue), each with the summed quantity and revenue, in order of
\* non-increasing revenue; a deleted product's items are counted under their
\* product reference with the placeholder name.
C18_TopProducts ==
    Answered =>
        LET top == dash.resp.topProducts
            totals == TotalsOfRange
            refs == DOMAIN totals
            shown == {ref \in refs : \E k \in DOMAIN top : EntryOf(top[k], ref, totals)}
        IN  /\ Len(top) <= 10
            /\ Len(top) = IF Cardinality(refs) < 10 THEN Cardinality(refs) ELSE 10
            /\ \A k \in DOMAIN top : \E ref \in refs : EntryOf(top[k], ref, totals)
            /\ Cardinality(shown) = Len(top)
            /\ \A ref \in refs \ shown :
                  \A k \in DOMAIN top : totals[ref].revenue <= top[k].revenue
            /\ \A k \in DOMAIN top : k < Len(top) => top[k].revenue >= top[k + 1].revenue

\* C18 witness: more than 10 products sold in the range, some of them
\* deleted: 10 entries, of which one carries a placeholder name
C18_Witness ==
    /\ Answered
    /\ Cardinality(RefsOfRange) > 10
    /\ Len(dash.resp.topProducts) = 10
    /\ \E k \in DOMAIN dash.resp.topProducts : dash.resp.topProducts[k].id = Null
    /\ dash.resp.topProducts[1].revenue > dash.resp.topProducts[10].revenue

-----------------------------------------------------------------------------
(* Paging: GET /sales with every limit/offset text of up to MaxParamLen    *)
(* characters, over three sales.                                           *)

MaxParamLen == 3

ParamChars == {"-", ".", "e", "0", "5", "9", "a", " "}

\* absent; every short text; texts of a value past every bound
ParamInputs ==
    {Absent}
    \cup {Str(t) : t \in UNION {[1..n -> ParamChars] : n \in 0..MaxParamLen}}
    \cup {Str(InfinityText), Str(<<"-">> \o InfinityText),
          Str(<<"1", "e", "9", "9", "9">>), Str(<<"-", "1", "e", "9", "9", "9">>),
          Str(<<"1", "0", "0", "0", "0", "0", "1">>),
          Str(<<"9", "9", "9", "9", "9", "9", ".", "9">>)}

WholeYear ==
    [from |-> Str(IsoText(2024, 1, 1)), to |-> Str(IsoText(2024, 12, 31))]

InitPage ==
    /\ AtRest
    /\ call = NoCall
    /\ store = [EmptyStore EXCEPT !.sales = ThreeSales, !.salesInc = 4]
    /\ dash \in {DashRequest("sales", [from |-> WholeYear.from, to |-> WholeYear.to,
                                        page |-> [q |-> Absent, limit |-> n,
                                                  offset |-> IF both THEN n ELSE Absent]]) :
                   n \in ParamInputs, both \in BOOLEAN}

SpecPage == InitPage /\ [][SalesNext]_vars

\* the requests whose handler has read its parameters
Paged == dash.route = "sales" /\ dash.pc \in {"count", "page", "done"} /\ dash.r.ok

\* C19: for every query input, the effective limit is an integer in
\* [1, 100] and the effective offset an integer in [0, 1000000]; missing or
\* non-numeric values give limit 20 and offset 0; limit=500 gives 100 and
\* offset=-5 gives 0; the page never has more rows than the limit
C19_Paging ==
    Paged =>
        /\ dash.limit \in 1..100
        /\ dash.offset \in Nat /\ dash.offset <= 1000000
        /\ dash.query.page.limit = Absent => dash.limit = 20
        /\ dash.query.page.offset = Absent => dash.offset = 0
        /\ \A text \in {<<"a">>, <<"5", "a">>, <<"-">>, <<"e", "5">>, <<"5", " ", "5">>} :
              /\ dash.query.page.limit = Str(text) => dash.limit = 20
              /\ dash.query.page.offset = Str(text) => dash.offset = 0
        /\ dash.query.page.limit = Str(<<"5", "0", "0">>) => dash.limit = 100
        /\ dash.query.page.offset = Str(<<"-", "5">>) => dash.offset = 0
        /\ dash.pc = "done" => Len(dash.resp.items) <= dash.limit

\* limit=500 was read as 100 and the reply's page is within it
C19_Witness ==
    /\ dash.route = "sales" /\ dash.pc = "done" /\ dash.resp.status = 200
    /\ dash.query.page.limit = Str(<<"5", "0", "0">>)
    /\ dash.limit = 100 /\ dash.offset = 500
    /\ dash.resp.total = 3

-----------------------------------------------------------------------------
(* GET /sales next to the point of sale, which writes the sales table      *)
(* while the request's two queries run.  dash.snaps records the contents   *)
(* the table has had since the handler started.                            *)

Noted(row, notes) == [row EXCEPT !.notes = notes]

\* the rows the point of sale writes: noted "x" at noon of the leap day,
\* noted "y" in its first second
NewSale(id, notes) ==
    IF notes = <<"x">>
    THEN Noted(SaleRow(id, Val(100), Stamp(2024, 2, 29, Noon)), notes)
    ELSE Noted(SaleRow(id, Val(50), Stamp(2024, 2, 29, FirstSecond)), notes)

SaleNotes == {<<"x">>, <<"y">>}

NewSales(id) == {NewSale(id, notes) : notes \in SaleNotes}

\* the point of sale records a sale while the request is being served
InsertSale(notes) ==
    /\ dash.pc \in {"count", "page"}
    /\ store.salesInc <= MaxSales
    /\ store' = [store EXCEPT !.sales = Append(@, NewSale(store.salesInc, notes)),
                              !.salesInc = @ + 1]
    /\ dash' = [dash EXCEPT !.snaps = @ \cup {store'.sales}]
    /\ UNCHANGED <<users, CFG, HAS_PASSWORD_HASH_COLUMN, started, salts, clock, login, req>>
    /\ UNCHANGED <<wreq, call>>
    /\ UNCHANGED sideVars

\* the point of sale cancels a sale while the request is being served
DeleteSale(i) ==
    /\ dash.pc \in {"count", "page"}
    /\ i \in DOMAIN store.sales
    /\ store' = [store EXCEPT !.sales = SelectSeq(@, LAMBDA sale : sale # store.sales[i])]
    /\ dash' = [dash EXCEPT !.snaps = @ \cup {store'.sales}]
    /\ UNCHANGED <<users, CFG, HAS_PASSWORD_HASH_COLUMN, started, salts, clock, login, req>>
    /\ UNCHANGED <<wreq, call>>
    /\ UNCHANGED sideVars

\* tables of up to MaxSales - 1 sales
SmallTables ==
    {<<>>}
    \cup {<<a>> : a \in NewSales(1)}
    \cup (IF MaxSales >= 3 THEN {<<a, b>> : a \in NewSales(1), b \in NewSales(2)} ELSE {})

LeapDay ==
    [from |-> Str(IsoText(2024, 2, 29)), to |-> Str(IsoText(2024, 2, 29))]

InitSales ==
    /\ AtRest
    /\ call = NoCall
    /\ store \in {[EmptyStore EXCEPT !.sales = t, !.salesInc = Len(t) + 1] : t \in SmallTables}
    /\ dash \in {DashRequest("sales", [from |-> LeapDay.from, to |-> LeapDay.to,
                                        page |-> [q |-> q, limit |-> l, offset |-> o]]) :
                   q \in {Absent, Str(<<"x">>)},
                   l \in {Str(<<"1">>), Str(<<"5">>)},
                   o \in {Absent, Str(<<"1">>)}}

SalesWriters ==
    \/ \E notes \in SaleNotes : InsertSale(notes)
    \/ \E i \in 1..MaxSales : DeleteSale(i)

SpecSales == InitSales /\ [][SalesNext \/ SalesWriters]_vars

\* the reply is what the two queries give on the sales table t
OfSnapshot(t) ==
    /\ dash.resp.total = Len(Selected(t, dash.r, dash.q))
    /\ \E lowFirst \in BOOLEAN :
          LET page == PageOf(t, dash.r, dash.q, dash.limit, dash.offset, lowFirst)
          IN  /\ Len(dash.resp.items) = Len(page)
              /\ \A k \in DOMAIN page : dash.resp.items[k].id_sale = page[k].id_sale

\* C20: the total and the items of one reply of GET /sales are those of a
\* single snapshot of the sales table, so that a page with items never
\* reaches past the total (offset plus the number of items is at most total)
C20_OneSnapshot ==
    (dash.route = "sales" /\ dash.pc = "done" /\ dash.resp.status = 200) =>
        /\ \E t \in dash.snaps : OfSnapshot(t)
        /\ dash.resp.items # <<>> => dash.offset + Len(dash.resp.items) <= dash.resp.total

\* the same, of the requests during which the table was not written
C20_HoldsWithoutWrites ==
    (dash.route = "sales" /\ dash.pc = "done" /\ dash.resp.status = 200
        /\ Cardinality(dash.snaps) = 1) =>
        /\ \E t \in dash.snaps : OfSnapshot(t)
        /\ dash.resp.items # <<>> => dash.offset + Len(dash.resp.items) <= dash.resp.total

-----------------------------------------------------------------------------
(* POST /offers, PATCH /offers/:id, DELETE /offers/:id, from the handler   *)
(* on: one connection, one transaction, the statements one by one.  A      *)
(* statement can fail with the connection alive ("error") or because the   *)
(* connection is lost ("lost"); on a lost connection the store drops the   *)
(* transaction and every later call on the connection fails.               *)

\* offers ever inserted in one behaviour
MaxOffers == 2

\* the statements of the handlers; offer 0 of a membership row stands for
\* res.insertId of the request
InsertOffer(name) == [op |-> "INSERT product_offers", id |-> 0, name |-> name, pid |-> 0]
UpdateOffer(id, name) == [op |-> "UPDATE product_offers", id |-> id, name |-> name, pid |-> 0]
DeleteOffer(id) == [op |-> "DELETE product_offers", id |-> id, name |-> <<>>, pid |-> 0]
DeleteLinks(id) == [op |-> "DELETE product_offers_products", id |-> id, name |-> <<>>, pid |-> 0]
InsertLink(id, pid) == [op |-> "INSERT product_offers_products", id |-> id, name |-> <<>>, pid |-> pid]

\* a body field that was not sent
Undefined == [defined |-> FALSE, null |-> TRUE, v |-> 0]
Defined(value) == [defined |-> TRUE, null |-> value.null, v |-> value.v]

\* b.productIds that is no array
NoIds == [isArray |-> FALSE, ids |-> <<>>]
Ids(ids) == [isArray |-> TRUE, ids |-> ids]

\* the statements of POST /offers
PostOfferStatements(b) ==
    <<InsertOffer(Trim(b.name.text))>>
    \o [i \in DOMAIN b.productIds.ids |-> InsertLink(0, b.productIds.ids[i])]

\* the statements of PATCH /offers/:id: the UPDATE when the body names a
\* column, the membership rewrite when it carries productIds
PatchOfferStatements(id, b) ==
    LET update == IF b.name.isString \/ b.quantity.defined
                  THEN <<UpdateOffer(id, IF b.name.isString THEN Trim(b.name.text) ELSE <<>>)>>
                  ELSE <<>>
        links == IF b.productIds.isArray
                 THEN <<DeleteLinks(id)>>
                      \o [i \in DOMAIN b.productIds.ids |-> InsertLink(id, b.productIds.ids[i])]
                 ELSE <<>>
    IN  update \o links

\* the statements of DELETE /offers/:id
DeleteOfferStatements(id) == <<DeleteLinks(id), DeleteOffer(id)>>

\* one statement on the tables the transaction sees: the tables after it
\* and the affected rows
Execute(work, stmt, insertId, offerId) ==
    IF stmt.op = "INSERT product_offers"
    THEN [work |-> [work EXCEPT !.offers = Append(@, [id_offer |-> insertId, name |-> stmt.name])],
          affected |-> 1]
    ELSE IF stmt.op = "UPDATE product_offers"
    THEN [work |-> [work EXCEPT !.offers =
                      [i \in DOMAIN @ |-> IF @[i].id_offer = stmt.id /\ stmt.name # <<>>
                                          THEN [@[i] EXCEPT !.name = stmt.name] ELSE @[i]]],
          affected |-> Cardinality({i \in DOMAIN work.offers : work.offers[i].id_offer = stmt.id})]
    ELSE IF stmt.op = "DELETE product_offers"
    THEN [work |-> [work EXCEPT !.offers = SelectSeq(@, LAMBDA o : o.id_offer # stmt.id)],
          affected |-> Cardinality({i \in DOMAIN work.offers : work.offers[i].id_offer = stmt.id})]
    ELSE IF stmt.op = "DELETE product_offers_products"
    THEN [work |-> [work EXCEPT !.links = SelectSeq(@, LAMBDA op : op.offer_id # stmt.id)],
          affected |-> Cardinality({i \in DOMAIN work.links : work.links[i].offer_id = stmt.id})]
    ELSE [work |-> [work EXCEPT !.links =
                      Append(@, [offer_id |-> IF stmt.id = 0 THEN offerId ELSE stmt.id,
                                 product_id |-> stmt.pid])],
          affected |-> 1]

\* the offer tables every request reads
Committed == [offers |-> store.product_offers, links |-> store.product_offers_products]

\* the store with the tables of a transaction committed
Commit(work) ==
    [store EXCEPT !.product_offers = work.offers, !.product_offers_products = work.links]

\* a rollback that leaves the transaction open
rollback_Skipped(p) == p

\* conn.rollback(), and what the store does with the transaction of a lost
\* connection
rollback(p) == [p EXCEPT !.txn = FALSE, !.work = NoWork]

\* a release that is made on the success path only
release_OnSuccessOnly(p, path) == IF path = "commit" THEN [p EXCEPT !.out = @ - 1] ELSE p

\* finally { conn.release() }, reached from the commit, from the 404 return
\* and from the catch block
release(p, path) == [p EXCEPT !.out = @ - 1]

\* the request with its connection released on leaving the try statement
Left(o, p, path) == [o EXCEPT !.released = @ + (p.out - release(p, path).out)]

\* the handler up to its first await: the 400 answers, the statements
OfferStart(route, id, b) ==
    /\ oreq.pc \in {"idle", "done"}
    /\ route = "POST /offers" => store.offerInc <= MaxOffers
    /\ LET name == IF b.name.isString THEN Trim(b.name.text) ELSE <<>>
           new == [IdleOffer EXCEPT !.route = route, !.before = Committed]
       IN  oreq' =
             IF route = "POST /offers"
             THEN IF name = <<>>
                  THEN [new EXCEPT !.pc = "done", !.resp = sendError(400, "Missing name")]
                  ELSE [new EXCEPT !.pc = "connect", !.todo = PostOfferStatements(b)]
             ELSE IF id = 0
             THEN [new EXCEPT !.pc = "done", !.resp = sendError(400, "Invalid id")]
             ELSE IF route = "PATCH /offers/:id"
             THEN [new EXCEPT !.pc = "connect", !.id = id, !.todo = PatchOfferStatements(id, b)]
             ELSE [new EXCEPT !.pc = "connect", !.id = id, !.todo = DeleteOfferStatements(id)]
    /\ UNCHANGED <<users, CFG, HAS_PASSWORD_HASH_COLUMN, started, salts, clock, login, req>>
    /\ UNCHANGED <<wreq, store, dash, call, pool, widget>>

\* await pool.getConnection(), before the try statement
OfferConnect(fails) ==
    /\ oreq.pc = "connect"
    /\ IF fails
       THEN /\ oreq' = [oreq EXCEPT !.pc = "done", !.err = "getConnection",
                                    !.resp = setErrorHandler(0)]
            /\ pool' = pool
       ELSE /\ oreq' = [oreq EXCEPT !.pc = "begin", !.acquired = @ + 1]
            /\ pool' = [pool EXCEPT !.out = @ + 1]
    /\ UNCHANGED <<users, CFG, HAS_PASSWORD_HASH_COLUMN, started, salts, clock, login, req>>
    /\ UNCHANGED <<wreq, store, dash, call, widget>>

\* await conn.beginTransaction(); START TRANSACTION commits a transaction
\* the connection still has open
OfferBegin(lost) ==
    /\ oreq.pc = "begin"
    /\ store' = IF pool.txn /\ ~lost THEN Commit(pool.work) ELSE store
    /\ IF lost
       THEN /\ oreq' = [oreq EXCEPT !.pc = "catch", !.err = "beginTransaction", !.lost = TRUE]
            /\ pool' = [pool EXCEPT !.txn = FALSE, !.work = NoWork]
       ELSE /\ oreq' = [oreq EXCEPT !.pc = IF oreq.todo = <<>> THEN "commit" ELSE "statement"]
            /\ pool' = [pool EXCEPT !.txn = TRUE,
                                    !.work = IF pool.txn THEN pool.work ELSE Committed]
    /\ UNCHANGED <<users, CFG, HAS_PASSWORD_HASH_COLUMN, started, salts, clock, login, req>>
    /\ UNCHANGED <<wreq, dash, call, widget>>

\* await conn.query(...) of the next statement
OfferStatement(outcome) ==
    /\ oreq.pc = "statement"
    /\ LET stmt == oreq.todo[oreq.k + 1]
           inserts == stmt.op = "INSERT product_offers"
           res == Execute(pool.work, stmt, store.offerInc, oreq.offerId)
           last == oreq.k + 1 = Len(oreq.todo)
       IN  /\ store' = IF inserts /\ outcome = "ok"
                       THEN [store EXCEPT !.offerInc = @ + 1] ELSE store
           /\ IF outcome = "ok"
              THEN /\ pool' = [pool EXCEPT !.work = res.work]
                   /\ oreq' =
                        IF stmt.op = "UPDATE product_offers" /\ res.affected = 0
                        THEN [oreq EXCEPT !.pc = "notfound", !.k = @ + 1, !.missing = TRUE]
                        ELSE [oreq EXCEPT
                                !.pc = IF last THEN "commit" ELSE "statement",
                                !.k = @ + 1,
                                !.offerId = IF inserts THEN store.offerInc ELSE @,
                                !.missing = IF stmt.op = "DELETE product_offers"
                                            THEN res.affected = 0 ELSE @]
              ELSE /\ pool' = IF outcome = "lost"
                              THEN [pool EXCEPT !.txn = FALSE, !.work = NoWork] ELSE pool
                   /\ oreq' = [oreq EXCEPT !.pc = "catch", !.err = "statement",
                                           !.lost = outcome = "lost"]
    /\ UNCHANGED <<users, CFG, HAS_PASSWORD_HASH_COLUMN, started, salts, clock, login, req>>
    /\ UNCHANGED <<wreq, dash, call, widget>>

\* PATCH: await conn.rollback(); return sendError(reply, 404, "Not found"),
\* then the finally block
OfferNotFound(lost) ==
    /\ oreq.pc = "notfound"
    /\ IF lost
       THEN /\ oreq' = [oreq EXCEPT !.pc = "catch", !.err = "rollback", !.lost = TRUE]
            /\ pool' = [pool EXCEPT !.txn = FALSE, !.work = NoWork]
       ELSE /\ pool' = release(rollback(pool), "notfound")
            /\ oreq' = [Left(oreq, pool, "notfound") EXCEPT
                          !.pc = "done", !.resp = sendError(404, "Not found")]
    /\ UNCHANGED <<users, CFG, HAS_PASSWORD_HASH_COLUMN, started, salts, clock, login, req>>
    /\ UNCHANGED <<wreq, store, dash, call, widget>>

\* await conn.commit(), the reply, then the finally block; when the
\* connection is lost during the commit the store has committed or has not
OfferCommit(lost, applied) ==
    /\ oreq.pc = "commit"
    /\ lost \/ applied
    /\ store' = IF applied THEN Commit(pool.work) ELSE store
    /\ IF lost
       THEN /\ oreq' = [oreq EXCEPT !.pc = "catch", !.err = "commit", !.lost = TRUE]
            /\ pool' = [pool EXCEPT !.txn = FALSE, !.work = NoWork]
       ELSE /\ pool' = release([pool EXCEPT !.txn = FALSE, !.work = NoWork], "commit")
            /\ oreq' = [Left(oreq, pool, "commit") EXCEPT
                          !.pc = "done",
                          !.resp = IF oreq.route = "POST /offers"
                                   THEN [NoResponse EXCEPT !.status = 201]
                                   ELSE IF oreq.route = "DELETE /offers/:id" /\ oreq.missing
                                   THEN sendError(404, "Not found")
                                   ELSE [NoResponse EXCEPT !.status = 200]]
    /\ UNCHANGED <<users, CFG, HAS_PASSWORD_HASH_COLUMN, started, salts, clock, login, req>>
    /\ UNCHANGED <<wreq, dash, call, widget>>

\* catch (e) { await conn.rollback(); throw e; }, then the finally block and
\* the error handler; on a lost connection the rollback throws in its turn
OfferCatch(lost) ==
    /\ oreq.pc = "catch"
    /\ oreq.lost => lost
    /\ pool' = release(IF lost THEN [pool EXCEPT !.txn = FALSE, !.work = NoWork]
                       ELSE rollback(pool), "catch")
    /\ oreq' = [Left(oreq, pool, "catch") EXCEPT
                  !.pc = "done", !.lost = lost, !.resp = setErrorHandler(0)]
    /\ UNCHANGED <<users, CFG, HAS_PASSWORD_HASH_COLUMN, started, salts, clock, login, req>>
    /\ UNCHANGED <<wreq, store, dash, call, widget>>

\* the bodies of POST and PATCH: name, quantity (price is read the same
\* way), productIds
OfferBodies ==
    [name : {Absent, Str(<<"o">>)}, quantity : {Undefined}, productIds : {NoIds, Ids(<<1, 2>>)}]
    \cup {[name |-> Absent, quantity |-> Defined(Null), productIds |-> NoIds]}

NoBody == [name |-> Absent, quantity |-> Undefined, productIds |-> NoIds]

\* the requests: route, :id (0: a parameter that is no positive number), body
OfferRequests ==
    {[route |-> "POST /offers", id |-> 0, b |-> b] : b \in OfferBodies}
    \cup {[route |-> "PATCH /offers/:id", id |-> id, b |-> b] :
            id \in 0..MaxOffers, b \in OfferBodies}
    \cup {[route |-> "DELETE /offers/:id", id |-> id, b |-> NoBody] : id \in 0..MaxOffers}

\* offer 1 with product 1, or no offer
OfferTables ==
    {NoWork,
     [offers |-> <<[id_offer |-> 1, name |-> <<"n">>]>>,
      links |-> <<[offer_id |-> 1, product_id |-> 1]>>]}

InitOffers ==
    /\ AtRest
    /\ dash = IdleDash
    /\ call = NoCall
    /\ store \in {[EmptyStore EXCEPT !.product_offers = t.offers,
                                     !.product_offers_products = t.links,
                                     !.offerInc = Len(t.offers) + 1] : t \in OfferTables}

OffersNext ==
    \/ \E r \in OfferRequests : OfferStart(r.route, r.id, r.b)
    \/ \E fails \in BOOLEAN : OfferConnect(fails)
    \/ \E lost \in BOOLEAN : OfferBegin(lost)
    \/ \E outcome \in {"ok", "error", "lost"} : OfferStatement(outcome)
    \/ \E lost \in BOOLEAN : OfferNotFound(lost)
    \/ \E lost \in BOOLEAN, applied \in BOOLEAN : OfferCommit(lost, applied)
    \/ \E lost \in BOOLEAN : OfferCatch(lost)

SpecOffers == InitOffers /\ [][OffersNext]_vars

\* the tables after the statements todo[k + 1 ..] on work
RECURSIVE ExecuteFrom(_, _, _, _)
ExecuteFrom(work, todo, k, offerId) ==
    IF k >= Len(todo) THEN work
    ELSE ExecuteFrom(Execute(work, todo[k + 1], offerId, offerId).work, todo, k + 1, offerId)

\* the tables with every statement of the request made on the tables it
\* found
Whole == ExecuteFrom(oreq.before, oreq.todo, 0, oreq.offerId)

\* the request has not reached its commit
Uncommitted == oreq.pc \in {"connect", "begin", "statement", "notfound", "commit"}

\* C21: offer creation, update and deletion are all-or-nothing: what other
\* requests can read is the tables as the request found them until the
\* commit, and then the tables with all its statements made; when a
\* statement has failed it stays the tables as found, and the transaction is
\* rolled back (none is open on the connection) when the connection has
\* been released and the error has been answered.
C21_AllOrNothing ==
    /\ Uncommitted => Committed = oreq.before
    /\ oreq.pc \in {"catch", "done"} => Committed \in {oreq.before, Whole}
    /\ (oreq.pc \in {"catch", "done"} /\ oreq.err = "statement") => Committed = oreq.before
    /\ (oreq.pc = "done" /\ oreq.resp.status = 400) => Committed = oreq.before
    /\ (oreq.pc = "done" /\ oreq.resp.status = 404 /\ oreq.route = "PATCH /offers/:id")
       => Committed = oreq.before
    /\ (oreq.pc = "done" /\ oreq.resp.status = 404 /\ oreq.route = "DELETE /offers/:id")
       => Committed = Whole
    /\ (oreq.pc = "done" /\ oreq.resp.status \in {200, 201}) => Committed = Whole
    /\ oreq.pc \in {"idle", "done"} => ~pool.txn /\ pool.work = NoWork

\* the second membership row of a request failed after the offer row and
\* the first one were written; the request was answered 500 and the tables
\* are as it found them
C21_Witness ==
    /\ oreq.pc = "done"
    /\ oreq.err = "statement"
    /\ ~oreq.lost
    /\ oreq.k = 2
    /\ Len(oreq.todo) = 3
    /\ oreq.resp.status = 500
    /\ Committed = oreq.before
    /\ Whole # oreq.before

\* C22: every connection an offer request acquires is released exactly once
\* on every exit path, and no connection is checked out when no request is
\* in flight.
C22_ReleasedOnce ==
    /\ oreq.acquired \in {0, 1}
    /\ oreq.released <= oreq.acquired
    /\ pool.out = oreq.acquired - oreq.released
    /\ oreq.pc \in {"begin", "statement", "notfound", "commit", "catch"}
       => oreq.acquired = 1 /\ oreq.released = 0
    /\ oreq.pc \in {"idle", "done"} => oreq.released = oreq.acquired /\ pool.out = 0
    /\ (oreq.pc = "done" /\ oreq.err # "getConnection" /\ oreq.resp.status # 400)
       => oreq.released = 1

\* the rollback of the catch block failed on a lost connection, and the
\* connection was released
C22_Witness ==
    /\ oreq.pc = "done"
    /\ oreq.lost
    /\ oreq.err = "rollback"
    /\ oreq.released = 1
    /\ pool.out = 0

\* the offers the request found
Found == {oreq.before.offers[i].id_offer : i \in DOMAIN oreq.before.offers}

\* a PATCH for an id that named no offer has been served without an error
\* of the store
PatchedMissing ==
    /\ oreq.pc = "done"
    /\ oreq.route = "PATCH /offers/:id"
    /\ oreq.id # 0
    /\ oreq.id \notin Found
    /\ oreq.err = "none"

\* C25: PATCH /offers/:id for an id that names no offer responds 404 and
\* leaves product_offers and product_offers_products unchanged, whatever the
\* body carries.
C25_MissingOfferIs404 ==
    PatchedMissing => oreq.resp.status = 404 /\ Committed = oreq.before

\* the same, of the bodies that name a column of the offer
C25_HoldsWhenBodyNamesAColumn ==
    (PatchedMissing /\ oreq.todo # <<>> /\ oreq.todo[1].op = "UPDATE product_offers")
        => oreq.resp.status = 404 /\ Committed = oreq.before

-----------------------------------------------------------------------------
(* Failed logins *)

\* login l passed the 400 check and was refused at the lookup or at the
\* comparison
Unknown(l) == login[l].pc = "done" /\ login[l].username # <<>> /\ login[l].user = NoUser
Inactive(l) == login[l].pc = "done" /\ login[l].user # NoUser /\ login[l].user.is_active = 0
WrongPassword(l) ==
    /\ login[l].pc = "done"
    /\ login[l].user # NoUser
    /\ login[l].user.is_active # 0
    /\ ~login[l].ok

Refused(l) == Unknown(l) \/ Inactive(l) \/ WrongPassword(l)

\* the three cases are answered alike and have written nothing
C23_SameAnswer ==
    /\ \A l \in LoginSlots :
          Refused(l) => /\ login[l].resp = sendError(401, "Invalid credentials")
                        /\ login[l].upgrade = "none"
                        /\ login[l].touched = 0
    /\ \A l, k \in LoginSlots : Refused(l) /\ Refused(k) => login[l].resp = login[k].resp

\* the step that refuses a login leaves the users table as it is
C23_SameStore ==
    \A l \in LoginSlots :
        (login[l].pc # "done" /\ login'[l].pc = "done" /\ login'[l].resp.status = 401)
            => users' = users

\* C23: for a non-empty username and password, POST /auth/login answers an
\* unknown username, a known inactive user and a known active user with a
\* wrong password with the same status and body (401, one message), and
\* leaves the store the same in the three cases.
C23_RefusalsIndistinguishable == []C23_SameAnswer /\ [][C23_SameStore]_vars

\* an unknown username and a wrong password for a known active user have
\* both been answered
C23_Witness ==
    \E l, k \in LoginSlots :
        /\ Unknown(l)
        /\ WrongPassword(k)
        /\ login[k].user.password = Plain("p1")
        /\ login[k].password = "p2"
        /\ login[l].resp.status = 401

-----------------------------------------------------------------------------
(* Sessions: logins, and protected requests that present the token a login *)
(* was answered with, over a users table that changes.                     *)

BearerOf(token) == [present |-> TRUE, scheme |-> "Bearer", token |-> token]

SessionBodies == {[username |-> Str(<<"a">>), password |-> Str(p)] : p \in Passwords}

\* a client presents the token login l was answered with
Present(r, l) ==
    /\ login[l].resp.status = 200
    /\ ReqStart(r, BearerOf(login[l].resp.token))

InitSession ==
    /\ Init
    /\ ~CFG.migratePlaintextPasswords
    /\ ~CFG.migratePlaintextPasswordsOverwrite
    /\ \A u \in UserIds :
          /\ users[u].password = Plain("p1")
          /\ users[u].password_hash \in {EmptyStr, BcryptHashOf("p1", 0)}

SessionNext ==
    \/ \E l \in LoginSlots, body \in SessionBodies : LoginStart(l, body)
    \/ \E l \in LoginSlots : LoginLookup(l)
    \/ \E l \in LoginSlots : LoginTouch(l)
    \/ \E l \in LoginSlots : LoginReply(l)
    \/ \E r \in ReqSlots, l \in LoginSlots : Present(r, l)
    \/ \E r \in ReqSlots : ReqLookup(r)
    \/ \E r \in ReqSlots : ReqHandler(r)
    \/ \E u \in UserIds : Deactivate(u)
    \/ \E u \in UserIds : DeleteUser(u)

SpecSession == InitSession /\ [][SessionNext]_vars

PublicFields == {"id_user", "username", "roles", "last_login", "is_active"}

\* a response body: an error without a user, or the user's public fields
NoCredential(resp) ==
    /\ DOMAIN resp \subseteq {"status", "message", "token", "user"}
    /\ "user" \in DOMAIN resp =>
          /\ DOMAIN resp.user \subseteq PublicFields
          /\ resp.status = 200 => DOMAIN resp.user = PublicFields

\* C24: no response of POST /auth/login or GET /auth/me carries a credential
\* field: the user object holds only id_user, username, roles, last_login
\* and is_active, never password or password_hash, whatever columns the
\* record was loaded with.
C24_NoCredentialInResponses ==
    /\ \A l \in LoginSlots : NoCredential(login[l].resp)
    /\ \A r \in ReqSlots : NoCredential(req[r].resp)

\* a login whose record was loaded with password and password_hash and a
\* request to /auth/me were both answered 200
C24_Witness ==
    /\ \E l \in LoginSlots :
          /\ login[l].resp.status = 200
          /\ {"password", "password_hash"} \subseteq DOMAIN login[l].user
          /\ DOMAIN login[l].resp.user = PublicFields
    /\ \E r \in ReqSlots : req[r].ran /\ req[r].resp.status = 200

\* the user is deactivated or deleted
Gone(u) == ~users[u].present \/ users[u].is_active = 0

\* a lookup made when the user is gone ends the request with a 401
C27_Lookups ==
    /\ \A r \in ReqSlots :
          (req[r].pc = "lookup" /\ req'[r].pc # "lookup"
             /\ req[r].idUser \in UserIds /\ Gone(req[r].idUser))
          => req'[r].pc = "done" /\ ~req'[r].ran
             /\ req'[r].resp = sendError(401, "Unauthorized")
    /\ \A l \in LoginSlots :
          (login[l].pc = "lookup" /\ login'[l].pc # "lookup"
             /\ \A u \in UserIds : users[u].username = login[l].username => Gone(u))
          => login'[l].pc = "done"
             /\ login'[l].resp = sendError(401, "Invalid credentials")

\* once the user is gone, a request slot that is free never reaches the
\* handler again, and a login slot that is free never verifies again
C27_Later ==
    \A u \in UserIds :
        /\ \A r \in ReqSlots :
              [](Gone(u) /\ req[r].pc \in {"idle", "done"}
                    => [](req[r].pc = "handler" => req[r].idUser # u))
        /\ \A l \in LoginSlots :
              [](Gone(u) /\ login[l].pc \in {"idle", "done"}
                    => [](login[l].pc \in {"touch", "reply"} => login[l].user.id_user # u))

\* C27: once a user is deactivated or deleted, every later protected request
\* with a token issued to that user is answered 401, and POST /auth/login
\* for that user is answered 401 even with the correct password.
C27_AuthenticableOnlyWhileActive == C27_Later /\ [][C27_Lookups]_vars

\* a login was answered 200; the user was then deactivated or deleted; a
\* request with the token of that login and a login with the correct
\* password were answered 401
C27_Witness ==
    \E l, k \in LoginSlots, r \in ReqSlots :
        /\ login[l].resp.status = 200
        /\ req[r].pc = "done"
        /\ req[r].header = BearerOf(login[l].resp.token)
        /\ req[r].resp.status = 401
        /\ Gone(req[r].idUser)
        /\ login[k].pc = "done"
        /\ login[k].password = "p1"
        /\ login[k].resp.status = 401


-----------------------------------------------------------------------------
(* Progress of the mutating endpoints.  The server takes every step it can *)
(* take: a lookup that is awaited resolves, a handler that was entered     *)
(* runs.  Nothing obliges a client to send a request.                      *)

Resolves == \E r \in WriteSlots, continues \in BOOLEAN : WriteGate(r, continues)

Handles ==
    \/ \E r \in WriteSlots, b \in ProductBodies : PostProduct(r, b)
    \/ \E r \in WriteSlots, id \in 0..MaxProducts, fails \in BOOLEAN : DeleteProduct(r, id, fails)

SpecWriteLive == SpecWrite /\ WF_vars(Resolves) /\ WF_vars(Handles)

\* the request in slot r awaits the lookup of a user who is active and
\* passes the role check
Passes(r) ==
    /\ wreq[r].pc = "lookup"
    /\ ~rejectedUser(getUserById(wreq[r].idUser))
    /\ requireWrite(getUserById(wreq[r].idUser)) = NoResponse

\* C26: a request to a mutating endpoint from an authenticated, active user
\* who passes the role check eventually reaches its handler and is answered:
\* when requireWrite does not reply 403, the request goes on to its next
\* step and does not stall.
C26_PassedRequestIsAnswered ==
    \A r \in WriteSlots : Passes(r) ~> (wreq[r].pc = "done")

\* a request that was handed to its handler is answered, and so is one that
\* requireAuth or requireWrite refuses
C26_AnsweredOnceHandedOn ==
    \A r \in WriteSlots :
        /\ (wreq[r].pc = "handler") ~> (wreq[r].pc = "done")
        /\ (wreq[r].pc = "lookup" /\ ~Passes(r)) ~> (wreq[r].pc = "done")


-----------------------------------------------------------------------------
(* The dashboard widget (cag-pos-dashboard.js).  Dates are the values of   *)
(* date inputs with four-digit years, which compare as strings the way the *)
(* days compare: a date is the number of its day, 0 is the empty value.    *)

\* days of the calendar of the model
MaxDate == 3
Dates == 1..MaxDate

\* summary requests in flight at once
MaxFlights == 2

\* list requests in flight at once, and results one panel has rendered
MaxLoads == 2
MaxRuns == 2

\* offsets a list is paged to
MaxOffset == 20
PageLimit == 20

Searches == {"", "a"}
\* rows the server counts for a list: two pages
Totals == {25}
ListViews == {"sales", "products"}
Views == {"overview"} \cup ListViews

\* what GET /dashboard/summary answers for a range
SummaryOf(range) == [loaded |-> TRUE, from |-> range.from, to |-> range.to]

\* updateRangeFromInputs(): the range it leaves in state, and what it returns
updateRangeFromInputs(w) ==
    LET f == w.fromInput
        t == w.toInput
    IN  IF f # 0 /\ t # 0 /\ f > t
        THEN [ok |-> FALSE, range |-> w.range]
        ELSE [ok |-> TRUE,
              range |-> [from |-> IF f # 0 THEN f ELSE w.range.from,
                         to |-> IF t # 0 THEN t ELSE w.range.to]]

\* paginate(stateSlice, total)
Ceil(n, d) == (n + d - 1) \div d
paginate(offset, total) ==
    [page |-> (offset \div PageLimit) + 1, pages |-> Max(1, Ceil(total, PageLimit))]

\* run() of a list view up to its await: the request leaves with the query
\* of the state, for the panel that is in the view now
run(w, v) ==
    [w EXCEPT !.loads = Append(@, [view |-> v, q |-> w.lists[v].q,
                                   offset |-> w.lists[v].offset, attached |-> TRUE])]

\* refreshSales() / refreshProducts(): the view is emptied and gets a new
\* panel holding "Chargement..."; requests in flight keep the old panel
refreshList(w, v) ==
    LET fresh == [w.lists[v] EXCEPT !.built = TRUE, !.prevOff = FALSE, !.nextOff = FALSE,
                                    !.empties = 1, !.tables = <<>>, !.footers = 0]
        old == [i \in DOMAIN w.loads |->
                   IF w.loads[i].view = v THEN [w.loads[i] EXCEPT !.attached = FALSE]
                   ELSE w.loads[i]]
    IN  run([w EXCEPT !.lists[v] = fresh, !.loads = old], v)

\* refreshAll() up to the await in refreshOverview
refreshAll(w) ==
    [w EXCEPT !.busy = TRUE, !.flights = Append(@, [range |-> w.range])]

\* requests the handlers of a step may still send
Room(w) == Len(w.flights) < MaxFlights /\ Len(w.loads) < MaxLoads

\* mount(root) on the dashboard page of a signed-in user, and the initial
\* paint of renderDashboard
Mount(today, days) ==
    /\ widget.pc = "idle"
    /\ today - days \in Dates
    /\ widget' = refreshAll([widget EXCEPT !.pc = "dashboard",
                                !.range = [from |-> today - days, to |-> today],
                                !.fromInput = today - days, !.toInput = today])
    /\ UNCHANGED <<users, CFG, HAS_PASSWORD_HASH_COLUMN, started, salts, clock, login, req>>
    /\ UNCHANGED <<wreq, store, dash, call, pool, oreq>>

\* the change listeners of the two date inputs
Changed(w) ==
    LET u == updateRangeFromInputs(w)
    IN  IF ~u.ok
        THEN [w EXCEPT !.fromInput = w.range.from, !.toInput = w.range.to]
        ELSE refreshAll([w EXCEPT !.range = u.range])

ChangeFrom(v) ==
    /\ widget.pc = "dashboard"
    /\ v # widget.fromInput
    /\ Room(widget)
    /\ widget' = Changed([widget EXCEPT !.fromInput = v])
    /\ UNCHANGED <<users, CFG, HAS_PASSWORD_HASH_COLUMN, started, salts, clock, login, req>>
    /\ UNCHANGED <<wreq, store, dash, call, pool, oreq>>

ChangeTo(v) ==
    /\ widget.pc = "dashboard"
    /\ v # widget.toInput
    /\ Room(widget)
    /\ widget' = Changed([widget EXCEPT !.toInput = v])
    /\ UNCHANGED <<users, CFG, HAS_PASSWORD_HASH_COLUMN, started, salts, clock, login, req>>
    /\ UNCHANGED <<wreq, store, dash, call, pool, oreq>>

\* click on 'Rafraichir' of the top bar (disabled while a refreshAll runs)
ClickRefresh ==
    /\ widget.pc = "dashboard"
    /\ ~widget.busy
    /\ Room(widget)
    /\ widget' = refreshAll(widget)
    /\ UNCHANGED <<users, CFG, HAS_PASSWORD_HASH_COLUMN, started, salts, clock, login, req>>
    /\ UNCHANGED <<wreq, store, dash, call, pool, oreq>>

\* the summary request i is answered: refreshOverview goes on after its
\* await, then refreshAll refreshes the list view that is active
SummaryArrives(i, ok) ==
    /\ widget.pc = "dashboard"
    /\ i \in DOMAIN widget.flights
    /\ widget.view \in ListViews => Len(widget.loads) < MaxLoads
    /\ LET w == [widget EXCEPT
                   !.flights = SubSeq(@, 1, i - 1) \o SubSeq(@, i + 1, Len(@)),
                   !.kpis = IF ok THEN SummaryOf(widget.flights[i].range) ELSE @,
                   !.overview = IF ok THEN "overview" ELSE "error",
                   !.busy = FALSE]
       IN  widget' = IF w.view \in ListViews THEN refreshList(w, w.view) ELSE w
    /\ UNCHANGED <<users, CFG, HAS_PASSWORD_HASH_COLUMN, started, salts, clock, login, req>>
    /\ UNCHANGED <<wreq, store, dash, call, pool, oreq>>

\* the page before the widget script runs
InitWidget ==
    /\ AtRest
    /\ dash = IdleDash
    /\ call = NoCall
    /\ store = EmptyStore

OverviewNext ==
    \/ \E today \in Dates, days \in 1..MaxDate : Mount(today, days)
    \/ \E v \in 0..MaxDate : ChangeFrom(v)
    \/ \E v \in 0..MaxDate : ChangeTo(v)
    \/ ClickRefresh
    \/ \E i \in 1..MaxFlights, ok \in BOOLEAN : SummaryArrives(i, ok)

SpecOverview == InitWidget /\ [][OverviewNext]_vars

\* C28: state.range.from <= state.range.to in every reachable state of the
\* widget, after any sequence of changes of the two date inputs (clearing
\* one and then changing the other included), and no request is sent with a
\* range whose start is after its end.
C28_RangeOrdered ==
    widget.pc = "dashboard" =>
        /\ widget.range.from <= widget.range.to
        /\ \A i \in DOMAIN widget.flights :
              widget.flights[i].range.from <= widget.flights[i].range.to

\* a change that leaves both inputs filled stores an ordered range
C28_HoldsWhenBothInputsFilled ==
    [][(widget'.fromInput # 0 /\ widget'.toInput # 0 /\ widget'.range # widget.range)
          => widget'.range.from <= widget'.range.to]_vars

\* C29: once every refreshOverview in flight has completed, in whatever
\* order the responses arrived, state.kpis and the rendered overview hold
\* the result of the request made for the current state.range.
C29_ShowsCurrentRange ==
    (widget.pc = "dashboard" /\ widget.flights = <<>> /\ widget.overview = "overview")
        => widget.kpis = SummaryOf(widget.range)

\* the same, of the behaviours in which no request is sent while another
\* is in flight
C29_HoldsForOneInFlight ==
    [](Len(widget.flights) <= 1) => []C29_ShowsCurrentRange


-----------------------------------------------------------------------------
(* The list views of the widget.  The sales and the products view are      *)
(* modelled; the offers view is built and refreshed as the products view.  *)

\* the listeners of a list view can send a request, and its panel has room
CanRun(v) ==
    /\ widget.pc = "dashboard"
    /\ widget.view = v
    /\ widget.lists[v].built
    /\ Len(widget.loads) < MaxLoads
    /\ Len(widget.lists[v].tables) < MaxRuns

\* click on a tab
TabClick(id) ==
    /\ widget.pc = "dashboard"
    /\ id \in ListViews => Len(widget.loads) < MaxLoads
    /\ LET w == [widget EXCEPT !.view = id]
       IN  widget' = IF id \in ListViews THEN refreshList(w, id) ELSE w
    /\ UNCHANGED <<users, CFG, HAS_PASSWORD_HASH_COLUMN, started, salts, clock, login, req>>
    /\ UNCHANGED <<wreq, store, dash, call, pool, oreq>>

\* click on 'Précédent'
PrevClick(v) ==
    /\ CanRun(v)
    /\ ~widget.lists[v].prevOff
    /\ widget' = run([widget EXCEPT !.lists[v].offset = Max(0, @ - PageLimit)], v)
    /\ UNCHANGED <<users, CFG, HAS_PASSWORD_HASH_COLUMN, started, salts, clock, login, req>>
    /\ UNCHANGED <<wreq, store, dash, call, pool, oreq>>

\* click on 'Suivant'
NextClick(v) ==
    /\ CanRun(v)
    /\ ~widget.lists[v].nextOff
    /\ widget.lists[v].offset + PageLimit <= MaxOffset
    /\ widget' = run([widget EXCEPT !.lists[v].offset = @ + PageLimit], v)
    /\ UNCHANGED <<users, CFG, HAS_PASSWORD_HASH_COLUMN, started, salts, clock, login, req>>
    /\ UNCHANGED <<wreq, store, dash, call, pool, oreq>>

\* click on 'Rafraichir' of the panel
ReloadClick(v) ==
    /\ CanRun(v)
    /\ widget' = run(widget, v)
    /\ UNCHANGED <<users, CFG, HAS_PASSWORD_HASH_COLUMN, started, salts, clock, login, req>>
    /\ UNCHANGED <<wreq, store, dash, call, pool, oreq>>

\* the debounced listener of the search input fires
SearchInput(v, q) ==
    /\ CanRun(v)
    /\ q # widget.lists[v].q
    /\ widget' = run([widget EXCEPT !.lists[v].q = q, !.lists[v].offset = 0], v)
    /\ UNCHANGED <<users, CFG, HAS_PASSWORD_HASH_COLUMN, started, salts, clock, login, req>>
    /\ UNCHANGED <<wreq, store, dash, call, pool, oreq>>

\* run() of the products view after its await, on the panel it was started
\* for: the result replaces the table and the footer of the panel
Rendered_products(l, load, ok, total) ==
    LET pag == paginate(l.offset, total)
    IN  IF ok
        THEN [l EXCEPT !.prevOff = pag.page <= 1, !.nextOff = pag.page >= pag.pages,
                       !.empties = Max(0, @ - 1),
                       !.tables = <<load.offset>>,
                       !.footers = 1]
        ELSE [l EXCEPT !.empties = IF @ > 0 THEN @ ELSE 1]

\* run() of the sales view after its await
Rendered_sales(l, load, ok, total) ==
    LET pag == paginate(l.offset, total)
    IN  IF ok
        THEN [l EXCEPT !.prevOff = pag.page <= 1, !.nextOff = pag.page >= pag.pages,
                       !.empties = Max(0, @ - 1),
                       !.tables = Append(@, load.offset),
                       !.footers = @ + 1]
        ELSE [l EXCEPT !.empties = IF @ > 0 THEN @ ELSE 1]

\* the list request i is answered (a panel that left the view is not shown)
LoadArrives(i, ok, total) ==
    /\ widget.pc = "dashboard"
    /\ i \in DOMAIN widget.loads
    /\ LET load == widget.loads[i]
           l == widget.lists[load.view]
       IN  widget' = [widget EXCEPT
              !.loads = SubSeq(@, 1, i - 1) \o SubSeq(@, i + 1, Len(@)),
              !.lists[load.view] =
                  IF ~load.attached THEN l
                  ELSE IF load.view = "sales" THEN Rendered_sales(l, load, ok, total)
                  ELSE Rendered_products(l, load, ok, total)]
    /\ UNCHANGED <<users, CFG, HAS_PASSWORD_HASH_COLUMN, started, salts, clock, login, req>>
    /\ UNCHANGED <<wreq, store, dash, call, pool, oreq>>

ListsNext ==
    \/ \E today \in {MaxDate}, days \in {1} : Mount(today, days)
    \/ ClickRefresh
    \/ \E i \in 1..MaxFlights, ok \in BOOLEAN : SummaryArrives(i, ok)
    \/ \E id \in Views : TabClick(id)
    \/ \E v \in ListViews : PrevClick(v)
    \/ \E v \in ListViews : NextClick(v)
    \/ \E v \in ListViews : ReloadClick(v)
    \/ \E v \in ListViews, q \in Searches : SearchInput(v, q)
    \/ \E i \in 1..MaxLoads, ok \in BOOLEAN, total \in Totals : LoadArrives(i, ok, total)

SpecLists == InitWidget /\ [][ListsNext]_vars

\* the panel of view v holds a result and waits for no other
Loaded(v) ==
    /\ widget.lists[v].built
    /\ widget.lists[v].tables # <<>>
    /\ \A i \in DOMAIN widget.loads : widget.loads[i].view = v => ~widget.loads[i].attached

\* C30: after any sequence of successful list loads within one view, the
\* panel of the view holds exactly one results table and one pagination
\* footer, in the sales view as in the products and offers views.
C30_OneTableOneFooter ==
    \A v \in ListViews :
        Loaded(v) => Len(widget.lists[v].tables) = 1 /\ widget.lists[v].footers = 1

\* the same, of the products view alone
C30_HoldsForProducts ==
    Loaded("products") =>
        /\ Len(widget.lists.products.tables) = 1
        /\ widget.lists.products.footers = 1

====
